---- MODULE Spec2Model ----
(***************************************************************************)
(* Verification model of reform-service: the squat rep segmenter, the      *)
(* metric analyzers, the score aggregator, the angle extractor and the     *)
(* upload_video request flow.                                              *)
(*                                                                         *)
(* Angles are whole degrees.  Python's None is the value None.  A Python   *)
(* dict is a function whose DOMAIN is the set of keys it holds.            *)
(***************************************************************************)
EXTENDS Integers, Sequences, FiniteSets, TLC

VARIABLES
    pc,                   \* position of the operation under analysis
    form_analysis,        \* calculate_final_score: its argument (dict of analyses)
    final_score,          \* calculate_final_score: the dict it returned
    calc_results,         \* Exercise1: the dict calculate() returned
    video_fps,            \* Exercise1: frames per second, in hundredths
    camera_info,          \* Exercise1: the camera-angle dict (empty: None)
    pose_landmarks,       \* Exercise1: the pose landmarks of every frame
    validation,           \* Exercise1: the landmark validation dict (empty: None)
    squat_phases,         \* Exercise1: what detect_phases returned
    form_result,          \* Exercise1: what analyze_form returned
    call,                 \* a direct call: the function's name and its arguments
    returned,             \* a direct call: what it returned
    request,              \* upload_video: the exercise and the uploaded file
    response,             \* upload_video: the HTTP response (None: not sent yet)
    steps,                \* upload_video: the processing steps made so far
    transactions,         \* token accounting: the user's TokenTransaction rows
    now,                  \* token accounting: the clock, datetime.now()
    _rate_limit_stores,   \* rate limiting: identifier -> deque of timestamps
    callers,              \* rate limiting: where each check_rate_limit call is
    wall_clock,           \* rate limiting: time.time(), in seconds
    admitted              \* rate limiting: the calls that returned normally

score_vars == <<form_analysis, final_score>>
exercise_inputs == <<calc_results, video_fps, camera_info, pose_landmarks,
                     validation>>
exercise_vars == <<calc_results, video_fps, camera_info, pose_landmarks,
                   validation, squat_phases, form_result>>
call_vars == <<call, returned>>
upload_vars == <<request, response, steps>>
token_vars == <<transactions, now>>
rate_vars == <<_rate_limit_stores, callers, wall_clock, admitted>>
vars == <<pc, form_analysis, final_score, calc_results, video_fps, camera_info,
          pose_landmarks, validation, squat_phases, form_result, call, returned,
          request, response, steps, transactions, now,
          _rate_limit_stores, callers, wall_clock, admitted>>

\* Python's None (also stands for "no value yet" in a result variable).
None == -1000

Max(a, b) == IF a >= b THEN a ELSE b
Min(a, b) == IF a <= b THEN a ELSE b
Abs(x) == IF x < 0 THEN -x ELSE x

RECURSIVE Gcd(_, _)
Gcd(a, b) == IF b = 0 THEN a ELSE Gcd(b, a % b)

(***************************************************************************)
(* IEEE-754 binary64 arithmetic, as far as calculate_final_score uses it.  *)
(* Every double met there is a multiple of 2^-57 below 2^9, so a double is *)
(* held exactly as the integer x * 2^57, written in three limbs of 22 bits *)
(* <<high, middle, low>>.                                                  *)
(***************************************************************************)
LimbBase == 2 ^ 22

Pow2(n) == IF n <= 0 THEN 1 ELSE 2 ^ n

\* carry propagation to limbs below LimbBase
BNorm(h, m, l) ==
    LET m1 == m + (l \div LimbBase)
    IN  <<h + (m1 \div LimbBase), m1 % LimbBase, l % LimbBase>>

BZero == <<0, 0, 0>>

BAddExact(x, y) == BNorm(x[1] + y[1], x[2] + y[2], x[3] + y[3])

BMulSmall(k, x) == BNorm(k * x[1], k * x[2], k * x[3])

BLeq(x, y) ==
    \/ x[1] < y[1]
    \/ x[1] = y[1] /\ x[2] < y[2]
    \/ x[1] = y[1] /\ x[2] = y[2] /\ x[3] <= y[3]

\* number of bits of a natural below 2^22
BitLen(n) == CHOOSE b \in 0..22 : Pow2(b) > n /\ (b = 0 \/ Pow2(b - 1) <= n)

\* round to 53 significant bits, ties to even (the rounding of every
\* binary64 operation); the bits dropped all lie in the low limb
Fl53(x) ==
    LET d == BitLen(x[1]) - 9
    IN  IF x[1] = 0 \/ d <= 0 THEN x
        ELSE LET unit == Pow2(d)
                 r == x[3] % unit
                 q == x[3] \div unit
                 up == r > unit \div 2 \/ (r = unit \div 2 /\ q % 2 = 1)
             IN  BNorm(x[1], x[2], x[3] - r + (IF up THEN unit ELSE 0))

\* float + float
FAdd(x, y) == Fl53(BAddExact(x, y))

\* int * float
FMulInt(k, y) == Fl53(BMulSmall(k, y))

\* exponent of the binade just below the integer m >= 1
BinadeBelow(m) == CHOOSE k \in -1..8 : Pow2(k + 1) >= m /\ (k = -1 \/ Pow2(k) < m)

\* int(a / b) for doubles a >= 0, b > 0 with a / b < 2^8: the quotient is
\* rounded to the nearest double before int() truncates it, so it reaches
\* n + 1 as soon as a / b is within half an ulp below n + 1.
FDivToInt(a, b) ==
    LET n == CHOOSE k \in 0..255 : BLeq(BMulSmall(k, b), a) /\ ~BLeq(BMulSmall(k + 1, b), a)
        s == 53 - BinadeBelow(n + 1)
        t == b[1] \div Pow2(s - 44)
    IN  IF BLeq(BMulSmall(n + 1, b), BAddExact(a, <<0, 0, t>>)) THEN n + 1 ELSE n

(***************************************************************************)
(* Angle Extractor.  A landmark is a point <<x, y>> on an integer grid     *)
(* (image coordinates, y downwards); a frame's landmarks are a function    *)
(* from landmark index to point, and the empty function when no pose was   *)
(* detected.  Angles computed from landmarks are in ticks of 1/200 degree. *)
(***************************************************************************)
Deg(d) == 200 * d

\* math.degrees(math.atan(p / q)) for 0 <= p <= q, q > 0, to the hundredth
\* of a degree, in ticks
ArcTanTicks(p, q) ==
    LET r == <<p \div Gcd(p, q), q \div Gcd(p, q)>>
    IN  CASE r = <<0, 1>> -> 0
          [] r = <<1, 6>> -> 1892
          [] r = <<1, 5>> -> 2262
          [] r = <<1, 4>> -> 2808
          [] r = <<1, 3>> -> 3686
          [] r = <<2, 5>> -> 4360
          [] r = <<1, 2>> -> 5314
          [] r = <<3, 5>> -> 6192
          [] r = <<2, 3>> -> 6738
          [] r = <<3, 4>> -> 7374
          [] r = <<4, 5>> -> 7732
          [] r = <<5, 6>> -> 7962
          [] r = <<1, 1>> -> 9000

\* math.degrees(math.atan2(y, x)), in (-180, 180] degrees
Atan2Ticks(y, x) ==
    LET ay == Abs(y)
        ax == Abs(x)
        alpha == IF ax = 0 /\ ay = 0 THEN 0
                 ELSE IF ay <= ax THEN ArcTanTicks(ay, ax)
                 ELSE Deg(90) - ArcTanTicks(ax, ay)
    IN  IF x >= 0 THEN (IF y >= 0 THEN alpha ELSE -alpha)
        ELSE (IF y >= 0 THEN Deg(180) - alpha ELSE alpha - Deg(180))

\* angle_from_horizontal after `if angle_from_horizontal < 0: += 360`
AngleFromHorizontal(point1, point2) ==
    LET dx == point2[1] - point1[1]
        dy == point2[2] - point1[2]
        a == Atan2Ticks(-dy, dx)
    IN  IF a < 0 THEN a + Deg(360) ELSE a

\* a variant whose last branch subtracts the wrong way round
FoldFromVertical_slip(v) ==
    IF v <= Deg(90) THEN Deg(90) - v
    ELSE IF v <= Deg(180) THEN v - Deg(90)
    ELSE IF v <= Deg(270) THEN Deg(270) - v
    ELSE Deg(270) - v

\* the quadrant folding of get_segment_angle
FoldFromVertical(v) ==
    IF v <= Deg(90) THEN Deg(90) - v
    ELSE IF v <= Deg(180) THEN v - Deg(90)
    ELSE IF v <= Deg(270) THEN Deg(270) - v
    ELSE v - Deg(270)

get_segment_angle(point1, point2) == FoldFromVertical(AngleFromHorizontal(point1, point2))

\* the quadrant folding of get_ankle_segment_angle
FoldAnkle(v) ==
    IF v <= Deg(90) THEN v
    ELSE IF v <= Deg(180) THEN Deg(180) - v
    ELSE IF v <= Deg(270) THEN Deg(270) - v
    ELSE Deg(360) - v

get_ankle_segment_angle(point1, point2) == FoldAnkle(AngleFromHorizontal(point1, point2))

\* `if not landmarks`
NoPose(landmarks) == DOMAIN landmarks = {}

\* (left_angle + right_angle) / 2; both are even numbers of ticks
AverageOfSides(left_angle, right_angle) == (left_angle + right_angle) \div 2

calculate_torso_angle_per_frame(landmarks_list) ==
    [k \in 1..Len(landmarks_list) |->
        IF NoPose(landmarks_list[k]) THEN None
        ELSE AverageOfSides(get_segment_angle(landmarks_list[k][23], landmarks_list[k][11]),
                            get_segment_angle(landmarks_list[k][24], landmarks_list[k][12]))]

calculate_quad_angle_per_frame(landmarks_list) ==
    [k \in 1..Len(landmarks_list) |->
        IF NoPose(landmarks_list[k]) THEN None
        ELSE AverageOfSides(get_segment_angle(landmarks_list[k][23], landmarks_list[k][25]),
                            get_segment_angle(landmarks_list[k][24], landmarks_list[k][26]))]

calculate_ankle_angle_per_frame(landmarks_list) ==
    [k \in 1..Len(landmarks_list) |->
        IF NoPose(landmarks_list[k]) THEN None
        ELSE AverageOfSides(get_ankle_segment_angle(landmarks_list[k][29], landmarks_list[k][25]),
                            get_ankle_segment_angle(landmarks_list[k][30], landmarks_list[k][26]))]

calculate_squat_form(landmarks_list) ==
    [exercise |-> 1,
     angles_per_frame |->
         [torso_angle |-> calculate_torso_angle_per_frame(landmarks_list),
          quad_angle |-> calculate_quad_angle_per_frame(landmarks_list),
          ankle_angle |-> calculate_ankle_angle_per_frame(landmarks_list)]]

(***************************************************************************)
(* Rep Segmenter.  A frame is its 0-based index, as in the code; an entry  *)
(* of angles_with_indices is <<frame, angle>>; list position i of the code *)
(* is sequence index i + 1.                                                *)
(***************************************************************************)
Frame(pair) == pair[1]
Angle(pair) == pair[2]

\* list[i] for a 0-based position i
At(list, i) == list[i + 1]

\* list(enumerate(list)): the pairs (i, list[i])
Enumerate(list) == [k \in 1..Len(list) |-> <<k - 1, list[k]>>]

\* [(i, a) for i, a in enumerate(quad) if a is not None]
ValidAngles(quad) == SelectSeq(Enumerate(quad), LAMBDA pair : pair[2] # None)

\* next(i for i, (f, _) in enumerate(angles_with_indices) if f == frame)
IndexOfFrame(angles_with_indices, frame) ==
    CHOOSE i \in 0..(Len(angles_with_indices) - 1) : Frame(At(angles_with_indices, i)) = frame

_is_local_max(i, angles_with_indices, min_height) ==
    IF i < 2 \/ i >= Len(angles_with_indices) - 2 THEN FALSE
    ELSE LET prev2 == Angle(At(angles_with_indices, i - 2))
             prev1 == Angle(At(angles_with_indices, i - 1))
             curr == Angle(At(angles_with_indices, i))
             next1 == Angle(At(angles_with_indices, i + 1))
             next2 == Angle(At(angles_with_indices, i + 2))
         IN  curr > prev1 /\ curr > next1 /\ curr >= min_height /\ curr > prev2 /\ curr > next2

\* the candidates (i, angles_with_indices[i]) of _find_peaks, in order;
\* _is_local_max itself refuses every i outside range(2, len - 2)
Candidates(angles_with_indices, min_height) ==
    SelectSeq(Enumerate(angles_with_indices),
              LAMBDA c : _is_local_max(c[1], angles_with_indices, min_height))

\* replace the last element of a non-empty list
SetLast(list, x) == [list EXCEPT ![Len(list)] = x]
Last(list) == list[Len(list)]

RECURSIVE DistanceScan(_, _, _)
\* `peaks` after the loop of _filter_peaks_by_distance has taken the first
\* n candidates
DistanceScan(candidates, min_distance, n) ==
    IF n = 1 THEN <<candidates[1]>>
    ELSE LET peaks == DistanceScan(candidates, min_distance, n - 1)
             idx == candidates[n][1]
             peak_data == candidates[n][2]
             frame_diff == idx - Last(peaks)[1]
         IN  IF frame_diff >= min_distance THEN Append(peaks, <<idx, peak_data>>)
             ELSE IF Angle(peak_data) > Angle(Last(peaks)[2]) THEN SetLast(peaks, <<idx, peak_data>>)
             ELSE peaks

\* a variant for which a candidate exactly min_distance away is still close
_filter_peaks_by_distance_wider(candidates, min_distance) ==
    IF candidates = <<>> THEN <<>>
    ELSE LET peaks == DistanceScan(candidates, min_distance + 1, Len(candidates))
         IN  [k \in 1..Len(peaks) |-> peaks[k][2]]

_filter_peaks_by_distance(candidates, min_distance) ==
    IF candidates = <<>> THEN <<>>
    ELSE LET peaks == DistanceScan(candidates, min_distance, Len(candidates))
         IN  [k \in 1..Len(peaks) |-> peaks[k][2]]

\* default of the min_distance parameter of _find_peaks
DefaultMinDistance == 30

_find_peaks(angles_with_indices, min_height, min_distance) ==
    _filter_peaks_by_distance(
        Candidates(angles_with_indices, min_height),
        min_distance)

\* curr_peak_data[1] >= prev_peak_data[1] * 0.9 (exact on whole degrees)
AtLeastNineTenths(curr_angle, prev_angle) == 10 * curr_angle >= 9 * prev_angle

RECURSIVE BounceScan(_, _, _)
\* `filtered` after the loop of _filter_bounce_reps has taken the first n peaks
BounceScan(peaks_with_indices, bounce_threshold, n) ==
    IF n = 1 THEN <<peaks_with_indices[1]>>
    ELSE LET filtered == BounceScan(peaks_with_indices, bounce_threshold, n - 1)
             prev == peaks_with_indices[n - 1]
             curr == peaks_with_indices[n]
         IN  IF /\ curr[1] - prev[1] < bounce_threshold
                /\ AtLeastNineTenths(Angle(curr[2]), Angle(prev[2]))
             THEN SetLast(filtered, curr)
             ELSE Append(filtered, curr)

_filter_bounce_reps(peaks_with_indices, bounce_threshold) ==
    IF Len(peaks_with_indices) < 2 THEN peaks_with_indices
    ELSE BounceScan(peaks_with_indices, bounce_threshold, Len(peaks_with_indices))

SetMax(S) == CHOOSE x \in S : \A y \in S : y <= x
SetMin(S) == CHOOSE x \in S : \A y \in S : x <= y

\* a variant that takes the frame below the threshold into the rep
_find_rep_start_end_early(angles_with_indices, peak_frame, threshold) ==
    LET peak_idx == IndexOfFrame(angles_with_indices, peak_frame)
        n == Len(angles_with_indices)
        before == {i \in 0..(peak_idx - 1) : Angle(At(angles_with_indices, i)) < threshold}
        after == {i \in (peak_idx + 1)..(n - 1) : Angle(At(angles_with_indices, i)) < threshold}
        start_frame == IF before = {} THEN Frame(At(angles_with_indices, 0))
                       ELSE Frame(At(angles_with_indices, SetMax(before)))
        end_frame == IF after = {} THEN Frame(At(angles_with_indices, n - 1))
                     ELSE Frame(At(angles_with_indices, SetMin(after) - 1))
    IN  <<start_frame, end_frame>>

\* <<start_frame, end_frame>> of the rep around peak_frame
_find_rep_start_end(angles_with_indices, peak_frame, threshold) ==
    LET peak_idx == IndexOfFrame(angles_with_indices, peak_frame)
        n == Len(angles_with_indices)
        before == {i \in 0..(peak_idx - 1) : Angle(At(angles_with_indices, i)) < threshold}
        after == {i \in (peak_idx + 1)..(n - 1) : Angle(At(angles_with_indices, i)) < threshold}
        start_frame == IF before = {} THEN Frame(At(angles_with_indices, 0))
                       ELSE Frame(At(angles_with_indices, SetMax(before) + 1))
        end_frame == IF after = {} THEN Frame(At(angles_with_indices, n - 1))
                     ELSE Frame(At(angles_with_indices, SetMin(after) - 1))
    IN  <<start_frame, end_frame>>

_calculate_baseline(valid_angles) ==
    LET n == Len(valid_angles)
    IN  IF n > 20
        THEN SetMin({Angle(valid_angles[k]) : k \in (1..10) \cup ((n - 9)..n)})
        ELSE SetMin({Angle(valid_angles[k]) : k \in 1..n})

\* a variant that asks a rep to span more than three frames
KeepsRep_longer(start_frame, end_frame) == start_frame + 2 < end_frame

\* does the peak yield a rep: `start_frame < end_frame`
KeepsRep(start_frame, end_frame) == start_frame < end_frame

RECURSIVE RepsUpTo(_, _, _, _)
\* `reps` after the loop of _build_reps_from_peaks has taken the first n peaks
RepsUpTo(filtered_peaks, valid_angles, threshold, n) ==
    IF n = 0 THEN <<>>
    ELSE LET reps == RepsUpTo(filtered_peaks, valid_angles, threshold, n - 1)
             peak_frame == Frame(filtered_peaks[n][2])
             se == _find_rep_start_end(valid_angles, peak_frame, threshold)
         IN  IF KeepsRep(se[1], se[2])
             THEN Append(reps, [start_frame |-> se[1], bottom_frame |-> peak_frame,
                                end_frame |-> se[2]])
             ELSE reps

_build_reps_from_peaks(filtered_peaks, valid_angles, threshold) ==
    RepsUpTo(filtered_peaks, valid_angles, threshold, Len(filtered_peaks))

\* int(fps * 1.0), fps given in hundredths of a frame per second
BounceThresholdFrames(fps) == fps \div 100

\* the list under "reps" of the dict detect_squat_phases returns
DetectedReps(quad_angles_per_frame, fps) ==
    LET valid_angles == ValidAngles(quad_angles_per_frame)
    IN  IF valid_angles = <<>> THEN <<>>
        ELSE LET baseline == _calculate_baseline(valid_angles)
                 squat_threshold == baseline + 20
                 peaks == _find_peaks(valid_angles, squat_threshold, DefaultMinDistance)
             IN  IF peaks = <<>> THEN <<>>
                 ELSE LET peaks_with_indices ==
                              [k \in 1..Len(peaks) |->
                                  <<IndexOfFrame(valid_angles, Frame(peaks[k])), peaks[k]>>]
                          filtered_peaks ==
                              _filter_bounce_reps(peaks_with_indices, BounceThresholdFrames(fps))
                      IN  _build_reps_from_peaks(filtered_peaks, valid_angles, squat_threshold)

detect_squat_phases(quad_angles_per_frame, fps) ==
    [reps |-> DetectedReps(quad_angles_per_frame, fps)]

(***************************************************************************)
(* Metric Analyzers.  A result is the dict the analyzer returns; its       *)
(* message is abbreviated to the words that identify the branch.  An       *)
(* average is kept exact as <<sum, count>>.                                *)
(***************************************************************************)
\* [a for a in series if a is not None]
ValidOnly(series) == SelectSeq(series, LAMBDA a : a # None)

\* `not series or all(a is None for a in series)`
NoData(series) == \A k \in 1..Len(series) : series[k] = None

SeqMax(list) == SetMax({list[k] : k \in 1..Len(list)})
SeqMin(list) == SetMin({list[k] : k \in 1..Len(list)})

RECURSIVE SumOver(_, _, _)
\* list[lo] + ... + list[hi]
SumOver(list, lo, hi) ==
    IF lo > hi THEN 0
    ELSE IF lo = hi THEN list[lo]
    ELSE LET mid == (lo + hi) \div 2
         IN  SumOver(list, lo, mid) + SumOver(list, mid + 1, hi)

SeqSum(list) == SumOver(list, 1, Len(list))

\* the dict {"status": "error", "message": ...}
ErrorDict(msg) == [status |-> "error", message |-> msg]

RECURSIVE ActiveFrames(_)
\* the frames range(start_frame, end_frame + 1) of every rep, concatenated
ActiveFrames(reps) ==
    IF reps = <<>> THEN <<>>
    ELSE [k \in 1..(reps[1].end_frame - reps[1].start_frame + 1) |-> reps[1].start_frame + k - 1]
         \o ActiveFrames(Tail(reps))

\* [angles[i] if i < len(angles) else None for i in frames]
PickFrames(angles, frames) ==
    [k \in 1..Len(frames) |-> IF frames[k] < Len(angles) THEN At(angles, frames[k]) ELSE None]

\* detect_squat_phases is called here without fps: the default 30.0
DefaultFps == 3000

_filter_to_active_phases(torso_angles_per_frame, quad_angles_per_frame) ==
    LET phases == detect_squat_phases(quad_angles_per_frame, DefaultFps)
    IN  IF phases.reps = <<>> THEN torso_angles_per_frame
        ELSE PickFrames(torso_angles_per_frame, ActiveFrames(phases.reps))

\* a variant that takes a lean of exactly 43 degrees out of the good band
_determine_torso_status_strict(max_angle, avg_angle) ==
    IF max_angle < 43 THEN
        IF 35 * avg_angle[2] <= avg_angle[1] /\ avg_angle[1] <= 43 * avg_angle[2]
        THEN <<"good", 100, "Excellent torso position">>
        ELSE IF avg_angle[1] < 35 * avg_angle[2]
        THEN <<"good", 95, "Good torso position (below optimal)">>
        ELSE <<"good", 90, "Good torso position">>
    ELSE IF max_angle <= 45 THEN <<"warning", 75, "Moderate forward lean detected">>
    ELSE <<"poor", 50, "Excessive forward lean detected">>

\* <<status, score, message>>; avg_angle is <<sum, count>>
_determine_torso_status(max_angle, avg_angle) ==
    IF max_angle <= 43 THEN
        IF 35 * avg_angle[2] <= avg_angle[1] /\ avg_angle[1] <= 43 * avg_angle[2]
        THEN <<"good", 100, "Excellent torso position">>
        ELSE IF avg_angle[1] < 35 * avg_angle[2]
        THEN <<"good", 95, "Good torso position (below optimal)">>
        ELSE <<"good", 90, "Good torso position">>
    ELSE IF max_angle <= 45 THEN <<"warning", 75, "Moderate forward lean detected">>
    ELSE <<"poor", 50, "Excessive forward lean detected">>

\* a variant that rates the smallest angle in place of the largest
TorsoAnalysis_least(valid_angles) ==
    IF valid_angles = <<>> THEN ErrorDict("No valid torso angle data")
    ELSE LET max_angle == SeqMin(valid_angles)
             avg_angle == <<SeqSum(valid_angles), Len(valid_angles)>>
             st == _determine_torso_status(max_angle, avg_angle)
         IN  [status |-> st[1], score |-> st[2], message |-> st[3],
              max_angle |-> max_angle, avg_angle |-> avg_angle,
              angle_range |-> max_angle - SeqMin(valid_angles)]

\* analyze_torso_angle from `if not valid_angles` on
TorsoAnalysis(valid_angles) ==
    IF valid_angles = <<>> THEN ErrorDict("No valid torso angle data")
    ELSE LET max_angle == SeqMax(valid_angles)
             avg_angle == <<SeqSum(valid_angles), Len(valid_angles)>>
             st == _determine_torso_status(max_angle, avg_angle)
         IN  [status |-> st[1], score |-> st[2], message |-> st[3],
              max_angle |-> max_angle, avg_angle |-> avg_angle,
              angle_range |-> max_angle - SeqMin(valid_angles)]

\* validation_result is a dict, empty when the caller passes None
analyze_torso_angle(torso_angles_per_frame, quad_angles_per_frame, validation_result) ==
    IF NoData(torso_angles_per_frame) THEN
        IF /\ "valid_frame_percentage" \in DOMAIN validation_result
           /\ validation_result["valid_frame_percentage"] < 30
        THEN ErrorDict("Insufficient pose detection")
        ELSE ErrorDict("No torso angle data available")
    ELSE TorsoAnalysis(ValidOnly(
             IF quad_angles_per_frame # <<>>
             THEN _filter_to_active_phases(torso_angles_per_frame, quad_angles_per_frame)
             ELSE torso_angles_per_frame))

_determine_quad_status(max_angle) ==
    IF max_angle >= 70 THEN <<"good", 100, "Excellent squat depth">>
    ELSE IF max_angle >= 60 THEN <<"warning", 75, "Partial squat depth">>
    ELSE <<"poor", 50, "Insufficient squat depth">>

analyze_quad_angle(quad_angles_per_frame) ==
    IF NoData(quad_angles_per_frame) THEN ErrorDict("No quad angle data available")
    ELSE LET valid_angles == ValidOnly(quad_angles_per_frame)
             max_angle == SeqMax(valid_angles)
             st == _determine_quad_status(max_angle)
         IN  [status |-> st[1], score |-> st[2], message |-> st[3],
              max_angle |-> max_angle,
              avg_angle |-> <<SeqSum(valid_angles), Len(valid_angles)>>,
              angle_range |-> max_angle - SeqMin(valid_angles)]

_determine_ankle_status(min_angle) ==
    IF min_angle <= 60 THEN <<"good", 100, "Good ankle mobility">>
    ELSE IF min_angle <= 70 THEN <<"warning", 75, "Moderate ankle mobility">>
    ELSE <<"poor", 50, "Limited ankle mobility">>

analyze_ankle_angle(ankle_angles_per_frame) ==
    IF NoData(ankle_angles_per_frame) THEN ErrorDict("No ankle angle data available")
    ELSE LET valid_angles == ValidOnly(ankle_angles_per_frame)
             min_angle == SeqMin(valid_angles)
             st == _determine_ankle_status(min_angle)
         IN  [status |-> st[1], score |-> st[2], message |-> st[3],
              min_angle |-> min_angle,
              avg_angle |-> <<SeqSum(valid_angles), Len(valid_angles)>>,
              angle_range |-> SeqMax(valid_angles) - min_angle]

\* a variant that still calls a difference of exactly 5 degrees minimal
_determine_asymmetry_status_lenient(max_asymmetry) ==
    IF max_asymmetry <= 5 THEN <<"good", 100, "Minimal asymmetry detected">>
    ELSE IF max_asymmetry < 10 THEN <<"warning", 75, "Moderate asymmetry detected">>
    ELSE <<"poor", 50, "Significant asymmetry detected">>

_determine_asymmetry_status(max_asymmetry) ==
    IF max_asymmetry < 5 THEN <<"good", 100, "Minimal asymmetry detected">>
    ELSE IF max_asymmetry < 10 THEN <<"warning", 75, "Moderate asymmetry detected">>
    ELSE <<"poor", 50, "Significant asymmetry detected">>

analyze_asymmetry(asymmetry_per_frame) ==
    IF NoData(asymmetry_per_frame) THEN ErrorDict("No asymmetry data available")
    ELSE LET valid_asymmetry == ValidOnly(asymmetry_per_frame)
             abs_asymmetry == [k \in 1..Len(valid_asymmetry) |-> Abs(valid_asymmetry[k])]
             max_asymmetry == SeqMax(abs_asymmetry)
             st == _determine_asymmetry_status(max_asymmetry)
         IN  [status |-> st[1], score |-> st[2], message |-> st[3],
              max_asymmetry |-> max_asymmetry,
              avg_asymmetry |-> <<SeqSum(valid_asymmetry), Len(valid_asymmetry)>>,
              avg_abs_asymmetry |-> <<SeqSum(abs_asymmetry), Len(abs_asymmetry)>>]

(***************************************************************************)
(* Rep consistency.  A per-rep value is an exact fraction <<num, den>>.    *)
(***************************************************************************)
Fraction(num, den) ==
    LET g == Gcd(Abs(num), den) IN <<num \div g, den \div g>>

RECURSIVE _extract_per_rep_metrics(_, _, _)
_extract_per_rep_metrics(angles_per_frame, reps, metric_type) ==
    IF reps = <<>> THEN <<>>
    ELSE LET rep == reps[1]
             rep_frames == [k \in 1..(rep.end_frame - rep.start_frame + 1) |->
                               rep.start_frame + k - 1]
             valid_angles == ValidOnly(PickFrames(angles_per_frame, rep_frames))
             rest == _extract_per_rep_metrics(angles_per_frame, Tail(reps), metric_type)
         IN  IF valid_angles = <<>> THEN rest
             ELSE IF metric_type = "max" THEN <<Fraction(SeqMax(valid_angles), 1)>> \o rest
             ELSE <<Fraction(SeqSum(valid_angles), Len(valid_angles))>> \o rest

RECURSIVE SeqLcm(_)
SeqLcm(list) ==
    IF list = <<>> THEN 1
    ELSE LET rest == SeqLcm(Tail(list)) IN (list[1] \div Gcd(list[1], rest)) * rest

RECURSIVE SeqGcd(_)
SeqGcd(list) == IF list = <<>> THEN 0 ELSE Gcd(Abs(list[1]), SeqGcd(Tail(list)))

\* the values up to a common positive factor, which the coefficient of
\* variation does not depend on: whole numbers a with value a * g / D
Numerators(per_rep_values) ==
    LET D == SeqLcm([k \in 1..Len(per_rep_values) |-> per_rep_values[k][2]])
        a == [k \in 1..Len(per_rep_values) |->
                 per_rep_values[k][1] * (D \div per_rep_values[k][2])]
        g == SeqGcd(a)
    IN  IF g = 0 THEN a ELSE [k \in 1..Len(a) |-> a[k] \div g]

\* The coefficient of variation cv = std_dev / mean * 100 of the values,
\* given by what the code asks of it: "none" (fewer than 2 values, or mean
\* 0), else its sign and the band it falls in.  With S the sum of the n
\* numerators and Q the sum of their squares, the variance is
\* (n * Q - S * S) / (n * D)^2 and the mean S / (n * D), so for mean > 0
\* cv < c  <=>  10000 * (n * Q - S * S) < c * c * S * S.  The per-rep
\* values are sums and quotients of whole degrees, and for two values the
\* mean and the deviations the code computes in floating point are exact
\* enough to fall in the same band.
CvBand(n, S, Q) ==
    LET V == n * Q - S * S
    IN  IF S = 0 THEN "none"
        ELSE IF V = 0 THEN "zero"
        ELSE IF S < 0 THEN "negative"
        ELSE IF V <= (S * S - 1) \div 400 THEN "below5"
        ELSE IF V <= (S * S - 1) \div 100 THEN "below10"
        ELSE "from10"

CvOfNumerators(a) ==
    CvBand(Len(a), SeqSum(a), SeqSum([k \in 1..Len(a) |-> a[k] * a[k]]))

_calculate_consistency_metrics(per_rep_values) ==
    IF Len(per_rep_values) < 2 THEN "none"
    ELSE CvOfNumerators(Numerators(per_rep_values))

\* <<status, score, message>> for a cv that is not None
_determine_consistency_status(cv) ==
    IF cv \in {"zero", "negative", "below5"} THEN <<"good", 100, "Excellent consistency">>
    ELSE IF cv = "below10" THEN <<"warning", 75, "Moderate variability">>
    ELSE <<"poor", 50, "Significant variability">>

\* `... if cv else ("error", 0, "No data")`: a cv of None or of 0.0 is falsy
CvIsTruthy(cv) == cv \notin {"none", "zero"}

\* `round(cv, 1) if cv else None`
_build_consistency_result(status, cv, message) ==
    [status |-> status, cv |-> IF CvIsTruthy(cv) THEN cv ELSE "none", message |-> message]

\* <<status, score, result dict>>
SingleConsistency(cv) ==
    LET st == IF CvIsTruthy(cv) THEN _determine_consistency_status(cv)
              ELSE <<"error", 0, "No data">>
    IN  <<st[1], st[2], _build_consistency_result(st[1], cv, st[3])>>

_analyze_single_consistency(values) ==
    SingleConsistency(_calculate_consistency_metrics(values))

\* angles_per_frame and asymmetry_per_frame are dicts of series; a missing
\* key reads as the empty list
SeriesGet(d, key) == IF key \in DOMAIN d THEN d[key] ELSE <<>>

\* int((a + b + c) / 3) on the non-negative whole scores
OverallScore(depth_score, torso_score, asym_score) ==
    IF depth_score # 0 /\ torso_score # 0 /\ asym_score # 0
    THEN (depth_score + torso_score + asym_score) \div 3
    ELSE 0

OverallStatus(statuses) ==
    IF \A st \in statuses : st \in {"good", "warning"} THEN "good"
    ELSE IF \E st \in statuses : st = "poor" THEN "warning"
    ELSE "poor"

\* the dict analyze_rep_consistency returns, from the three <<status,
\* score, result>> of depth, torso and asymmetry
ConsistencyResult(depth, torso, asym, rep_count) ==
    [status |-> OverallStatus({depth[1], torso[1], asym[1]}),
     score |-> OverallScore(depth[2], torso[2], asym[2]),
     rep_count |-> rep_count,
     depth_consistency |-> depth[3],
     torso_consistency |-> torso[3],
     asymmetry_consistency |-> asym[3]]

analyze_rep_consistency(angles_per_frame, asymmetry_per_frame, reps) ==
    IF Len(reps) < 2 THEN ErrorDict("Need at least 2 reps for consistency analysis")
    ELSE ConsistencyResult(
             _analyze_single_consistency(
                 _extract_per_rep_metrics(SeriesGet(angles_per_frame, "quad_angle"), reps, "max")),
             _analyze_single_consistency(
                 _extract_per_rep_metrics(SeriesGet(angles_per_frame, "torso_angle"), reps, "avg")),
             _analyze_single_consistency(
                 _extract_per_rep_metrics(SeriesGet(asymmetry_per_frame, "quad_asymmetry"), reps, "avg")),
             Len(reps))

(***************************************************************************)
(* Glute / quad dominance.  fps is in hundredths of a frame per second.    *)
(***************************************************************************)
\* the frames start_frame .. min(start_frame + window, len(angles)) - 1 that
\* hold a value; the baseline is their average <<sum, count>>, and
\* angles[start_frame] (else 0) when there is none
_calculate_smoothed_baseline(angles, start_frame, window) ==
    LET valid == {i \in start_frame..(Min(start_frame + window, Len(angles)) - 1) :
                      At(angles, i) # None}
        total == SeqSum([k \in 1..Len(angles) |->
                            IF (k - 1) \in valid THEN angles[k] ELSE 0])
    IN  IF valid # {} THEN <<total, Cardinality(valid)>> ELSE <<0, 1>>

\* abs(angles[i] - angles[i-1]) * fps >= 2.0 / fps
VelocityReached(delta, fps) ==
    \/ Abs(delta) * fps >= 20000
    \/ (Abs(delta) * fps) * fps >= 20000

_detect_movement_start_velocity(angles, start_frame, end_frame, fps) ==
    IF start_frame >= Len(angles) \/ end_frame >= Len(angles) \/ end_frame <= start_frame
    THEN start_frame
    ELSE LET baseline == _calculate_smoothed_baseline(angles, start_frame, 3)
             moving == {i \in (start_frame + 1)..Min(end_frame, Len(angles) - 1) :
                           /\ At(angles, i) # None
                           /\ At(angles, i - 1) # None
                           /\ VelocityReached(At(angles, i) - At(angles, i - 1), fps)
                           /\ Abs(At(angles, i) * baseline[2] - baseline[1]) >= 3 * baseline[2]}
         IN  IF moving # {} THEN SetMin(moving) ELSE start_frame

\* hip_start - knee_start of every rep, in frames
TimingDiffFrames(quad_angles, torso_angles, reps, fps) ==
    [k \in 1..Len(reps) |->
        LET start == reps[k].start_frame
            bottom == reps[k].bottom_frame
        IN  _detect_movement_start_velocity(torso_angles, start, bottom, fps)
            - _detect_movement_start_velocity(quad_angles, start, bottom, fps)]

\* avg_timing_diff_ms = round(sum(d / fps * 1000) / len, 1) compared with a
\* bound given in twentieths of a millisecond: the value rounded to one
\* decimal is >= 50 iff the exact one is >= 49.95
AvgTimingAtLeast(diffs, fps, twentieths) ==
    SeqSum(diffs) * 2000000 >= twentieths * fps * Len(diffs)

\* <<status, score, message>>
_determine_glute_dominance_status(diffs, fps) ==
    IF AvgTimingAtLeast(diffs, fps, 999) THEN <<"good", 100, "Hip-dominant pattern detected">>
    ELSE IF AvgTimingAtLeast(diffs, fps, -1001) THEN <<"warning", 75, "Mixed pattern detected">>
    ELSE <<"poor", 50, "Quad-dominant pattern detected">>

analyze_glute_dominance(quad_angles_per_frame, torso_angles_per_frame, reps, fps) ==
    IF quad_angles_per_frame = <<>> \/ torso_angles_per_frame = <<>>
    THEN ErrorDict("Missing angle data")
    ELSE IF reps = <<>> THEN ErrorDict("No reps available")
    ELSE LET diffs == TimingDiffFrames(quad_angles_per_frame, torso_angles_per_frame, reps, fps)
             st == _determine_glute_dominance_status(diffs, fps)
         IN  [status |-> st[1], score |-> st[2], message |-> st[3],
              per_rep_diffs_frames |-> diffs]

(***************************************************************************)
(* Knee valgus (FPPA), in ticks of 1/200 degree.                           *)
(***************************************************************************)
_is_front_view(camera_angle_info) ==
    /\ "angle_estimate" \in DOMAIN camera_angle_info
    /\ camera_angle_info["angle_estimate"] # None
    /\ Abs(camera_angle_info["angle_estimate"] - 0) <= 10

\* math.degrees(math.acos(cos_angle)) of the angle between the two vectors
FoldHalfTurn(d) == IF d > Deg(180) THEN Deg(360) - d ELSE d
AngleBetween(v1, v2) ==
    FoldHalfTurn(Abs(Atan2Ticks(v1[2], v1[1]) - Atan2Ticks(v2[2], v2[1])))

\* fppa from vec1 (knee to hip) and vec2 (knee to ankle)
FppaOf(vec1, vec2, angle) ==
    IF vec1 = <<0, 0>> \/ vec2 = <<0, 0>> THEN None
    ELSE IF vec1[1] * vec2[2] - vec1[2] * vec2[1] > 0 THEN Deg(360) - angle
    ELSE angle

_calculate_knee_valgus_angle(hip, knee, ankle) ==
    FppaOf(<<hip[1] - knee[1], hip[2] - knee[2]>>,
           <<ankle[1] - knee[1], ankle[2] - knee[2]>>,
           AngleBetween(<<hip[1] - knee[1], hip[2] - knee[2]>>,
                        <<ankle[1] - knee[1], ankle[2] - knee[2]>>))

ActiveFrameSet(reps) ==
    UNION {reps[k].start_frame..reps[k].end_frame : k \in 1..Len(reps)}

\* `if left_valgus is not None and right_valgus is not None`
AverageOrNone(left_valgus, right_valgus) ==
    IF left_valgus # None /\ right_valgus # None
    THEN AverageOfSides(left_valgus, right_valgus)
    ELSE None

_calculate_valgus_per_frame(landmarks_list, reps) ==
    [k \in 1..Len(landmarks_list) |->
        IF (k - 1) \notin ActiveFrameSet(reps) \/ NoPose(landmarks_list[k]) THEN None
        ELSE LET lm == landmarks_list[k]
             IN  AverageOrNone(_calculate_knee_valgus_angle(lm[23], lm[25], lm[27]),
                               _calculate_knee_valgus_angle(lm[24], lm[26], lm[28]))]

\* <<max_deviation_from_180, most_extreme_fppa>>
_calculate_valgus_metrics(valid_fppa) ==
    LET deviations == [k \in 1..Len(valid_fppa) |-> Abs(Deg(180) - valid_fppa[k])]
        max_deviation == SeqMax(deviations)
        most_extreme_idx == SetMin({k \in 1..Len(deviations) : deviations[k] = max_deviation})
    IN  <<max_deviation, valid_fppa[most_extreme_idx]>>

\* a variant that rates a large deviation poor whatever its direction
_determine_valgus_status_symmetric(max_deviation, most_extreme_fppa) ==
    IF max_deviation < Deg(4) THEN <<"good", 100, "Minimal knee valgus/varus detected">>
    ELSE IF max_deviation < Deg(8) THEN
        IF most_extreme_fppa < Deg(180)
        THEN <<"warning", 75, "Moderate knee valgus detected">>
        ELSE <<"warning", 75, "Moderate knee varus detected">>
    ELSE <<"poor", 50, "Significant knee valgus detected">>

\* <<status, score, message>>
_determine_valgus_status(max_deviation, most_extreme_fppa) ==
    IF max_deviation < Deg(4) THEN <<"good", 100, "Minimal knee valgus/varus detected">>
    ELSE IF max_deviation < Deg(8) THEN
        IF most_extreme_fppa < Deg(180)
        THEN <<"warning", 75, "Moderate knee valgus detected">>
        ELSE <<"warning", 75, "Moderate knee varus detected">>
    ELSE IF most_extreme_fppa < Deg(180)
        THEN <<"poor", 50, "Significant knee valgus detected">>
        ELSE <<"warning", 75, "Significant knee varus detected">>

\* analyze_knee_valgus from `valid_fppa = ...` on
ValgusAnalysis(fppa_angles) ==
    LET valid_fppa == ValidOnly(fppa_angles)
    IN  IF valid_fppa = <<>> THEN ErrorDict("No valid FPPA data available")
        ELSE LET mt == _calculate_valgus_metrics(valid_fppa)
                 st == _determine_valgus_status(mt[1], mt[2])
             IN  [status |-> st[1], score |-> st[2], message |-> st[3],
                  max_fppa |-> SeqMax(valid_fppa),
                  fppa_range |-> SeqMax(valid_fppa) - SeqMin(valid_fppa),
                  max_deviation_from_180 |-> mt[1],
                  fppa_per_frame |-> fppa_angles]

analyze_knee_valgus(landmarks_list, reps) ==
    IF landmarks_list = <<>> \/ reps = <<>> THEN ErrorDict("Missing landmarks or rep data")
    ELSE ValgusAnalysis(_calculate_valgus_per_frame(landmarks_list, reps))

(***************************************************************************)
(* Score Aggregator                                                        *)
(***************************************************************************)
\* the keys of `weights`, in the dict's iteration order
WeightKeys == <<"torso_angle", "quad_angle", "glute_dominance", "rep_consistency",
                "torso_asymmetry", "quad_asymmetry", "ankle_asymmetry">>

\* the weights as the doubles the literals denote (times 2^57)
weights ==
    [torso_angle     |-> <<2048, 0, 0>>,               \* 0.25
     quad_angle      |-> <<2048, 0, 0>>,               \* 0.25
     glute_dominance |-> <<983, 167772, 671088>>,      \* 0.12
     rep_consistency |-> <<1474, 2348810, 1006632>>,   \* 0.18
     torso_asymmetry |-> <<655, 1509949, 1845494>>,    \* 0.08
     quad_asymmetry  |-> <<573, 1845493, 3187672>>,    \* 0.07
     ankle_asymmetry |-> <<409, 2516582, 1677722>>]    \* 0.05

\* the same weights in hundredths, as the literals read
WeightPct ==
    [torso_angle |-> 25, quad_angle |-> 25, glute_dominance |-> 12, rep_consistency |-> 18,
     torso_asymmetry |-> 8, quad_asymmetry |-> 7, ankle_asymmetry |-> 5]

\* `analysis.get("score") is not None`
HasScore(analysis) == "score" \in DOMAIN analysis /\ analysis.score # None

\* `analysis = form_analysis.get(key)`, then `analysis and HasScore`
Scored(fa, key) == key \in DOMAIN fa /\ HasScore(fa[key])

\* a variant that asks for more than 90 for the top grade
_determine_grade_strict(score) ==
    IF score > 90 THEN "Excellent"
    ELSE IF score >= 75 THEN "Good"
    ELSE IF score >= 60 THEN "Fair"
    ELSE "Needs Improvement"

_determine_grade(score) ==
    IF score >= 90 THEN "Excellent"
    ELSE IF score >= 75 THEN "Good"
    ELSE IF score >= 60 THEN "Fair"
    ELSE "Needs Improvement"

\* the loop over weights.items(): <<weighted_sum, total_weight>> after the
\* first i keys
RECURSIVE WeightedSums(_, _)
WeightedSums(fa, i) ==
    IF i = 0 THEN <<BZero, BZero>>
    ELSE LET prev == WeightedSums(fa, i - 1)
             key == WeightKeys[i]
         IN  IF Scored(fa, key)
             THEN <<FAdd(prev[1], FMulInt(fa[key].score, weights[key])),
                    FAdd(prev[2], weights[key])>>
             ELSE prev

TruncatedQuotient(weighted_sum, total_weight) ==
    IF total_weight # BZero THEN FDivToInt(weighted_sum, total_weight) ELSE 0

\* a variant that reads the ankle mobility analysis where the ankle
\* asymmetry analysis belongs
calculate_final_score_with_ankle(fa) ==
    LET read == IF "ankle_angle" \in DOMAIN fa
                THEN [k \in DOMAIN fa \cup {"ankle_asymmetry"} |->
                         IF k = "ankle_asymmetry" THEN fa["ankle_angle"] ELSE fa[k]]
                ELSE fa
        sums == WeightedSums(read, Len(WeightKeys))
        final == TruncatedQuotient(sums[1], sums[2])
    IN  [final_score |-> final,
         grade |-> _determine_grade(final),
         component_scores |->
             [k \in {key \in DOMAIN WeightPct : Scored(read, key)} |-> read[k].score]]

calculate_final_score(fa) ==
    LET sums == WeightedSums(fa, Len(WeightKeys))
        final == TruncatedQuotient(sums[1], sums[2])
    IN  [final_score |-> final,
         grade |-> _determine_grade(final),
         component_scores |->
             [k \in {key \in DOMAIN WeightPct : Scored(fa, key)} |-> fa[k].score]]

(***************************************************************************)
(* Exercise Adapter (Exercise1).  A dict a caller may leave out (None) is  *)
(* the empty dict; a method that returns None returns NoneDict.            *)
(***************************************************************************)
NoneDict == <<>>
IsNone(d) == DOMAIN d = {}

\* dict.get(key, {}) for a dict of dicts, dict.get(key, []) for one of lists
DictOrEmpty(d, key) == IF key \in DOMAIN d THEN d[key] ELSE <<>>

\* `not phases or not phases.get("reps")`
NoReps(phases) == IsNone(phases) \/ DictOrEmpty(phases, "reps") = <<>>

detect_phases(calculation_results, fps) ==
    LET angles_per_frame == DictOrEmpty(calculation_results, "angles_per_frame")
        quad_angles_raw == DictOrEmpty(angles_per_frame, "quad_angle")
    IN  IF IsNone(angles_per_frame) \/ quad_angles_raw = <<>> THEN NoneDict
        ELSE detect_squat_phases(quad_angles_raw, fps)

_extract_active_angles(angles, phases) ==
    IF NoReps(phases) THEN angles
    ELSE PickFrames(angles, ActiveFrames(phases.reps))

\* `if not phases or not phases.get("reps"): return None`
ReturnsNoneWithoutReps(phases) == NoReps(phases)

\* `if glute_dominance and glute_dominance.get("status") != "error"`, and
\* the same test of knee_valgus
KeptInResult(analysis) == analysis.status # "error"

\* the components analyze_form puts into `result`: the six per-angle
\* analyses and rep_consistency always, glute_dominance and knee_valgus
\* under the `if` before each
KeptComponents(analyses, valgus_wanted) ==
    {"torso_angle", "quad_angle", "ankle_angle", "torso_asymmetry",
     "quad_asymmetry", "ankle_asymmetry", "rep_consistency"}
    \cup (IF KeptInResult(analyses["glute_dominance"]) THEN {"glute_dominance"} ELSE {})
    \cup (IF valgus_wanted /\ KeptInResult(analyses["knee_valgus"]) THEN {"knee_valgus"} ELSE {})

Restrict(dict, keys) == [k \in keys |-> dict[k]]

\* what every analyzer returns for this request
Analyses(calculation_results, phases, fps, landmarks_list, validation_result) ==
    LET angles_per_frame == calculation_results["angles_per_frame"]
        asymmetry_data == DictOrEmpty(calculation_results, "asymmetry_per_frame")
    IN  [k \in {"torso_angle", "quad_angle", "ankle_angle", "torso_asymmetry",
                "quad_asymmetry", "ankle_asymmetry", "rep_consistency",
                "glute_dominance", "knee_valgus"} |->
            CASE k = "torso_angle" ->
                    analyze_torso_angle(DictOrEmpty(angles_per_frame, "torso_angle"),
                                        DictOrEmpty(angles_per_frame, "quad_angle"),
                                        validation_result)
              [] k = "quad_angle" ->
                    analyze_quad_angle(
                        _extract_active_angles(DictOrEmpty(angles_per_frame, k), phases))
              [] k = "ankle_angle" ->
                    analyze_ankle_angle(
                        _extract_active_angles(DictOrEmpty(angles_per_frame, k), phases))
              [] k \in {"torso_asymmetry", "quad_asymmetry", "ankle_asymmetry"} ->
                    analyze_asymmetry(
                        _extract_active_angles(DictOrEmpty(asymmetry_data, k), phases))
              [] k = "rep_consistency" ->
                    analyze_rep_consistency(angles_per_frame, asymmetry_data, phases.reps)
              [] k = "glute_dominance" ->
                    analyze_glute_dominance(DictOrEmpty(angles_per_frame, "quad_angle"),
                                            DictOrEmpty(angles_per_frame, "torso_angle"),
                                            phases.reps, fps)
              [] k = "knee_valgus" -> analyze_knee_valgus(landmarks_list, phases.reps)]

\* the dict `result` before result["final_score"] is set, from what the
\* analyzers returned
FormResult(analyses, phases, camera_angle_info, landmarks_list) ==
    Restrict(analyses,
             KeptComponents(analyses, /\ _is_front_view(camera_angle_info)
                                      /\ landmarks_list # <<>>
                                      /\ phases.reps # <<>>))

\* result["final_score"] = calculate_final_score(result)
WithFinalScore(result) ==
    [k \in DOMAIN result \cup {"final_score"} |->
        IF k = "final_score" THEN calculate_final_score(result) ELSE result[k]]

\* the two early `return None` of analyze_form
ReturnsNone(calculation_results, phases) ==
    \/ IsNone(DictOrEmpty(calculation_results, "angles_per_frame"))
    \/ ReturnsNoneWithoutReps(phases)

(***************************************************************************)
(* Spec: Exercise1.detect_phases followed by Exercise1.analyze_form, over  *)
(* recordings with up to two squat bottoms.  A recording starts and ends   *)
(* with standing frames at 90 degrees.                                     *)
(***************************************************************************)
\* the Exercise1 variables of a run that never calls Exercise1
ExerciseIdle ==
    /\ calc_results = <<>>
    /\ video_fps = DefaultFps
    /\ camera_info = <<>>
    /\ pose_landmarks = <<>>
    /\ validation = <<>>
    /\ squat_phases = NoneDict
    /\ form_result = NoneDict

\* the direct-call variables of a run that makes no direct call
NoCall ==
    /\ call = <<>>
    /\ returned = None

\* the upload variables of a run that serves no upload
NoUpload ==
    /\ request = <<>>
    /\ response = None
    /\ steps = <<>>

\* the token variables of a run that moves no tokens
NoTokens ==
    /\ transactions = <<>>
    /\ now = 0

MaxCallers == 3
MaxClock == 3
Callers == 1..MaxCallers
Identifiers == {"10.0.0.1", "10.0.0.2"}

\* a caller that has not called check_rate_limit yet
NotCalling == [at |-> "idle", identifier |-> "none", now |-> 0]

\* the rate limit variables before any request: a defaultdict's missing
\* deque is the empty deque
NoRateLimit ==
    /\ _rate_limit_stores = [identifier \in Identifiers |-> <<>>]
    /\ callers = [c \in Callers |-> NotCalling]
    /\ wall_clock = 0
    /\ admitted = <<>>

MaxPeakDistance == 60
FirstPeak == 12
PeakDistances == {10, 29, 30, MaxPeakDistance - 1, MaxPeakDistance}
PeakHeights == {116, 120, 130, 140}
FpsValues == {2997, 3000, 5994, 6000}

\* quad_angle of a recording: bottoms is the sequence of <<frame, angle>> of
\* the squat bottoms; a "wide" bottom has both neighbours 5 degrees below
\* it, a "spike" stands alone; between the bottoms the person stands up
\* (90) or stays down at 112 ("plateau"); dropped frames hold None
QuadSeries(bottoms, shape, between, dropped) ==
    LET last == IF bottoms = <<>> THEN FirstPeak ELSE bottoms[Len(bottoms)][1]
    IN  [k \in 1..(last + FirstPeak + 1) |->
            LET f == k - 1
                at == {b \in 1..Len(bottoms) : bottoms[b][1] = f}
                near == {b \in 1..Len(bottoms) : Abs(bottoms[b][1] - f) = 1}
            IN  IF f \in dropped THEN None
                ELSE IF at # {} THEN bottoms[CHOOSE b \in at : TRUE][2]
                ELSE IF shape = "wide" /\ near # {} THEN bottoms[CHOOSE b \in near : TRUE][2] - 5
                ELSE IF /\ between = "plateau" /\ bottoms # <<>>
                        /\ bottoms[1][1] < f /\ f < last THEN 112
                ELSE 90]

\* torso_angle follows the knee bend: 20 degrees standing, 2 more for
\* every 4 degrees of quad angle
TorsoSeries(quad) ==
    [k \in 1..Len(quad) |-> IF quad[k] = None THEN None ELSE 20 + (quad[k] - 90) \div 2]

ConstantSeries(n, value) == [k \in 1..n |-> value]

\* a frame's landmarks 23..28 (hips, knees, ankles) with both knees caved in
ValgusPose ==
    (23 :> <<2, 0>>) @@ (25 :> <<2, 4>>) @@ (27 :> <<3, 8>>) @@
    (24 :> <<6, 0>>) @@ (26 :> <<6, 4>>) @@ (28 :> <<5, 8>>)

\* the dict calculate() returns: "full" has every series, "bare" has the
\* series without a detected torso and no asymmetry_per_frame, "no_torso"
\* has an empty torso_angle list
CalculationResults(quad, others) ==
    LET n == Len(quad)
        angles ==
            IF others = "full"
            THEN [quad_angle |-> quad, torso_angle |-> TorsoSeries(quad),
                  ankle_angle |-> ConstantSeries(n, 25)]
            ELSE IF others = "bare"
            THEN [quad_angle |-> quad, torso_angle |-> ConstantSeries(n, None)]
            ELSE [quad_angle |-> quad, torso_angle |-> <<>>,
                  ankle_angle |-> ConstantSeries(n, 25)]
    IN  IF others = "full"
        THEN [exercise |-> 1, angles_per_frame |-> angles,
              asymmetry_per_frame |->
                  [torso_asymmetry |-> ConstantSeries(n, 3),
                   quad_asymmetry |-> ConstantSeries(n, 6),
                   ankle_asymmetry |-> ConstantSeries(n, 12)]]
        ELSE [exercise |-> 1, angles_per_frame |-> angles]

Recordings ==
    {QuadSeries(<<>>, "wide", "stand", {}), <<>>, ConstantSeries(FirstPeak, None)}
    \cup {QuadSeries(<<<<FirstPeak, h>>>>, shape, "stand", {}) :
            h \in PeakHeights, shape \in {"wide", "spike"}}
    \cup {QuadSeries(<<<<FirstPeak, 130>>, <<FirstPeak + d, h>>>>, shape, between, dropped) :
            d \in PeakDistances, h \in PeakHeights, shape \in {"wide", "spike"},
            between \in {"stand", "plateau"},
            dropped \in {{}, (FirstPeak + 3)..(FirstPeak + 5)}}

Views == {"none", "front_pose", "front_nopose", "side_pose"}

Init ==
    /\ pc = "start"
    /\ form_analysis = <<>>
    /\ final_score = None
    /\ squat_phases = NoneDict
    /\ form_result = NoneDict
    /\ NoCall
    /\ NoUpload
    /\ NoTokens
    /\ NoRateLimit
    /\ video_fps \in FpsValues
    /\ \E quad \in Recordings, others \in {"full", "bare", "no_torso"}, view \in Views :
        /\ calc_results =
              IF quad = <<>> /\ others = "bare" THEN <<>>
              ELSE CalculationResults(quad, others)
        /\ validation =
              IF others = "bare" THEN [valid_frame_percentage |-> 20] ELSE <<>>
        /\ camera_info =
              IF view = "none" THEN <<>>
              ELSE IF view = "side_pose" THEN [angle_estimate |-> 90, should_reject |-> FALSE]
              ELSE [angle_estimate |-> 5, should_reject |-> FALSE]
        /\ pose_landmarks =
              IF view = "none" THEN <<>>
              ELSE IF view = "front_nopose" THEN ConstantSeries(Len(quad), <<>>)
              ELSE ConstantSeries(Len(quad), ValgusPose)

\* squat_phases = exercise.detect_phases(calc_results, video_fps)
DetectPhases ==
    /\ pc = "start"
    /\ squat_phases' = detect_phases(calc_results, video_fps)
    /\ pc' = "phases_detected"
    /\ UNCHANGED <<rate_vars, token_vars, score_vars, exercise_inputs, form_result, call_vars, upload_vars>>

\* form_result = exercise.analyze_form(calc_results, squat_phases, video_fps,
\* camera_info, pose_landmarks, validation): the analyzers run once each,
\* the kept components make `result`, and the final score is added to it
AnalyzeForm ==
    /\ pc = "phases_detected"
    /\ IF ReturnsNone(calc_results, squat_phases)
       THEN form_result' = NoneDict
       ELSE \E analyses \in {Analyses(calc_results, squat_phases, video_fps,
                                     pose_landmarks, validation)} :
            \E result \in {FormResult(analyses, squat_phases, camera_info,
                                      pose_landmarks)} :
                form_result' = WithFinalScore(result)
    /\ pc' = "done"
    /\ UNCHANGED <<rate_vars, token_vars, score_vars, exercise_inputs, squat_phases, call_vars, upload_vars>>

Next == DetectPhases \/ AnalyzeForm

Spec == Init /\ [][Next]_vars

(***************************************************************************)
(* Claims about the rep segmenter and Exercise1 (Spec)                     *)
(***************************************************************************)
QuadInput == DictOrEmpty(DictOrEmpty(calc_results, "angles_per_frame"), "quad_angle")
PhasesDetected == pc # "start" /\ ~IsNone(squat_phases)
RepRange(rep) == rep.start_frame..rep.end_frame

\* C1: the reps detect_squat_phases returns are pairwise disjoint as frame
\* ranges, come in ascending start_frame order, and each has
\* start_frame <= bottom_frame <= end_frame.
C1_RepsDisjointAndOrdered ==
    PhasesDetected =>
        LET reps == squat_phases.reps
        IN  /\ \A i, j \in 1..Len(reps) :
                  i < j => /\ RepRange(reps[i]) \cap RepRange(reps[j]) = {}
                           /\ reps[i].start_frame <= reps[j].start_frame
            /\ \A i \in 1..Len(reps) :
                  /\ reps[i].start_frame <= reps[i].bottom_frame
                  /\ reps[i].bottom_frame <= reps[i].end_frame

\* the frames that are strict maxima of their 5-frame window at or above
\* baseline + 20, in a series without missing frames (none otherwise)
WindowPeaks(quad) ==
    LET threshold == _calculate_baseline(ValidAngles(quad)) + 20
    IN  IF \E k \in 1..Len(quad) : quad[k] = None THEN {}
        ELSE {f \in 2..(Len(quad) - 3) :
                /\ At(quad, f) >= threshold
                /\ \A g \in {f - 2, f - 1, f + 1, f + 2} : At(quad, f) > At(quad, g)}

\* the peaks are clean: nothing is missing, any two peaks are at least
\* max(30, fps) frames apart and the signal is below baseline + 20
\* somewhere between them
CleanPeaks(quad, fps_) ==
    LET threshold == _calculate_baseline(ValidAngles(quad)) + 20
    IN  /\ quad # <<>>
        /\ \A k \in 1..Len(quad) : quad[k] # None
        /\ \A f, g \in WindowPeaks(quad) :
              f < g => /\ 100 * (g - f) >= Max(3000, fps_)
                       /\ \E b \in (f + 1)..(g - 1) : At(quad, b) < threshold

\* a peak lasts: the frame before it or the frame after it is at or above
\* baseline + 20 as well
PeaksLast(quad) ==
    LET threshold == _calculate_baseline(ValidAngles(quad)) + 20
    IN  \A f \in WindowPeaks(quad) :
            At(quad, f - 1) >= threshold \/ At(quad, f + 1) >= threshold

BottomFrames(reps) == {reps[i].bottom_frame : i \in 1..Len(reps)}

\* C8 (as stated): a series with k clean peaks yields exactly k reps, whose
\* bottom frames are the peak frames.
C8_CleanPeaksGiveReps ==
    PhasesDetected /\ CleanPeaks(QuadInput, video_fps) =>
        /\ Len(squat_phases.reps) = Cardinality(WindowPeaks(QuadInput))
        /\ BottomFrames(squat_phases.reps) = WindowPeaks(QuadInput)

\* C8 (amended): a series with k clean peaks, each with a neighbouring frame
\* at or above baseline + 20, yields exactly k reps, whose bottom frames
\* are the peak frames.
C8_LastingCleanPeaksGiveReps ==
    PhasesDetected /\ CleanPeaks(QuadInput, video_fps) /\ PeaksLast(QuadInput) =>
        /\ Len(squat_phases.reps) = Cardinality(WindowPeaks(QuadInput))
        /\ BottomFrames(squat_phases.reps) = WindowPeaks(QuadInput)

\* two clean lasting peaks were found as two reps
C8_Witness ==
    /\ PhasesDetected
    /\ CleanPeaks(QuadInput, video_fps)
    /\ PeaksLast(QuadInput)
    /\ Cardinality(WindowPeaks(QuadInput)) = 2
    /\ Len(squat_phases.reps) = 2

\* C9: when the series has exactly two peak candidates, less than fps x 1.0
\* frames apart, the second at least 90% of the first, exactly one rep is
\* returned, for one of the two peaks, whichever of them is the higher.
C9_BounceGivesOneRep ==
    PhasesDetected =>
        \A f, g \in WindowPeaks(QuadInput) :
            (/\ \A k \in 1..Len(QuadInput) : QuadInput[k] # None
             /\ WindowPeaks(QuadInput) = {f, g}
             /\ f < g
             /\ 100 * (g - f) < video_fps
             /\ 10 * At(QuadInput, g) >= 9 * At(QuadInput, f))
            => /\ Len(squat_phases.reps) = 1
               /\ squat_phases.reps[1].bottom_frame \in {f, g}

\* what the rep-dependent analyzers return for this request
GluteDominanceRun ==
    analyze_glute_dominance(QuadInput,
        DictOrEmpty(DictOrEmpty(calc_results, "angles_per_frame"), "torso_angle"),
        squat_phases.reps, video_fps)
KneeValgusWanted ==
    _is_front_view(camera_info) /\ pose_landmarks # <<>> /\ squat_phases.reps # <<>>
KneeValgusRun == analyze_knee_valgus(pose_landmarks, squat_phases.reps)

ErrorComponent(res, key) ==
    /\ key \in DOMAIN res
    /\ res[key].status = "error"
    /\ "message" \in DOMAIN res[key]

\* C5: with zero reps detect_phases returns the empty rep list, and
\* analyze_form still returns a result: torso, depth, ankle and asymmetry
\* are there, rep consistency reports an error, a final score is computed.
C5_ZeroRepsStillAnalyzed ==
    pc = "done" /\ ~IsNone(squat_phases) /\ squat_phases.reps = <<>> =>
        /\ ~IsNone(form_result)
        /\ {"torso_angle", "quad_angle", "ankle_angle", "torso_asymmetry",
            "quad_asymmetry", "ankle_asymmetry", "final_score"} \subseteq DOMAIN form_result
        /\ ErrorComponent(form_result, "rep_consistency")

\* C6: in the result of analyze_form every analyzer that failed is a
\* component with status error and a message: glute dominance and knee
\* valgus when they ran and failed, and every component that is an error.
C6_FailedAnalyzersAreShown ==
    pc = "done" /\ ~IsNone(form_result) =>
        /\ GluteDominanceRun.status = "error" => ErrorComponent(form_result, "glute_dominance")
        /\ KneeValgusWanted /\ KneeValgusRun.status = "error"
               => ErrorComponent(form_result, "knee_valgus")
        /\ \A k \in DOMAIN form_result \ {"final_score"} :
               form_result[k].status = "error" => "message" \in DOMAIN form_result[k]

(***************************************************************************)
(* SpecAnalyzers: every analyzer called on its own with short series, and  *)
(* what it returned aggregated by calculate_final_score next to a depth    *)
(* (or, for the depth analyzer, torso) analysis that scores 100.           *)
(***************************************************************************)
MaxSeriesLen == 4

RECURSIVE SeriesOfLen(_)
\* the series of n frames, each missing or 30 or 80 degrees
SeriesOfLen(n) ==
    IF n = 0 THEN {<<>>}
    ELSE {Append(series, a) : series \in SeriesOfLen(n - 1), a \in {None, 30, 80}}

ShortSeries == UNION {SeriesOfLen(n) : n \in 0..MaxSeriesLen}

RECURSIVE SeriesOver(_, _)
\* the series of n frames with entries from values
SeriesOver(n, values) ==
    IF n = 0 THEN {<<>>}
    ELSE {Append(series, a) : series \in SeriesOver(n - 1, values), a \in values}

\* torso series on and around the thresholds 35, 43 and 45 of the torso
\* rating
LeanSeries == UNION {SeriesOver(n, {None, 30, 37, 41, 43, 45, 46}) : n \in 1..MaxSeriesLen}

\* reps over the frames 0..3
RepLists ==
    {<<>>,
     <<[start_frame |-> 0, bottom_frame |-> 1, end_frame |-> 3]>>,
     <<[start_frame |-> 0, bottom_frame |-> 0, end_frame |-> 1],
       [start_frame |-> 2, bottom_frame |-> 3, end_frame |-> 3]>>}

StraightPose ==
    (23 :> <<2, 0>>) @@ (25 :> <<2, 4>>) @@ (27 :> <<2, 8>>) @@
    (24 :> <<6, 0>>) @@ (26 :> <<6, 4>>) @@ (28 :> <<6, 8>>)

LandmarkLists ==
    {<<>>} \cup {ConstantSeries(4, <<>>)}
    \cup {<<first, second, second, first>> : first, second \in {<<>>, StraightPose, ValgusPose}}

\* right-minus-left differences of either sign, on and around the
\* thresholds 5 and 10 of the asymmetry rating
SignedSeries == UNION {SeriesOver(n, {None, 3, -2, 4, -11, -5, 10}) : n \in 1..MaxSeriesLen}

\* FPPA values on and around the deviations 4 and 8 degrees from 180, on the
\* valgus and on the varus side
FppaSeries ==
    UNION {SeriesOver(n, {Deg(172), Deg(176), Deg(177), Deg(183), Deg(184), Deg(188)}) :
               n \in 1..MaxSeriesLen}

AnalyzersInit ==
    /\ pc = "analyzer_start"
    /\ form_analysis = <<>>
    /\ final_score = None
    /\ ExerciseIdle
    /\ NoCall
    /\ NoUpload
    /\ NoTokens
    /\ NoRateLimit

Returns(name, args, value) ==
    /\ pc = "analyzer_start"
    /\ call' = [name |-> name, args |-> args]
    /\ returned' = value
    /\ pc' = "analyzer_returned"
    /\ UNCHANGED <<rate_vars, token_vars, score_vars, exercise_vars, upload_vars>>

AnalyzeTorso ==
    /\ pc = "analyzer_start"
    /\ \E torso \in ShortSeries \cup LeanSeries, with_quad \in BOOLEAN, validation_result \in
            {<<>>, [valid_frame_percentage |-> 20], [valid_frame_percentage |-> 90]} :
        /\ torso \in ShortSeries \/ (~with_quad /\ validation_result = <<>>)
        /\ LET quad == IF with_quad THEN ConstantSeries(Len(torso), 80) ELSE <<>>
           IN  Returns("analyze_torso_angle", <<torso, quad, validation_result>>,
                       analyze_torso_angle(torso, quad, validation_result))

AnalyzeQuad ==
    /\ pc = "analyzer_start"
    /\ \E quad \in ShortSeries :
        Returns("analyze_quad_angle", <<quad>>, analyze_quad_angle(quad))

AnalyzeAnkle ==
    /\ pc = "analyzer_start"
    /\ \E ankle \in ShortSeries :
        Returns("analyze_ankle_angle", <<ankle>>, analyze_ankle_angle(ankle))

AnalyzeAsymmetry ==
    /\ pc = "analyzer_start"
    /\ \E asymmetry \in ShortSeries \cup SignedSeries :
        Returns("analyze_asymmetry", <<asymmetry>>, analyze_asymmetry(asymmetry))

AnalyzeRepConsistency ==
    /\ pc = "analyzer_start"
    /\ \E quad \in ShortSeries, torso_known \in BOOLEAN, with_asymmetry \in BOOLEAN,
       reps \in RepLists :
        LET angles_per_frame ==
                [quad_angle |-> quad,
                 torso_angle |-> IF torso_known THEN quad ELSE ConstantSeries(Len(quad), None)]
            asymmetry_per_frame ==
                IF with_asymmetry THEN [quad_asymmetry |-> quad] ELSE <<>>
        IN  Returns("analyze_rep_consistency", <<angles_per_frame, asymmetry_per_frame, reps>>,
                    analyze_rep_consistency(angles_per_frame, asymmetry_per_frame, reps))

\* MaxSeriesLen frames that stand at 30 degrees and move to 80 degrees at
\* frame onset; with onset = MaxSeriesLen the series never moves
OnsetSeries(onset) == [k \in 1..MaxSeriesLen |-> IF k <= onset THEN 30 ELSE 80]

\* one rep whose descent covers the whole series
DescentRep == <<[start_frame |-> 0, bottom_frame |-> MaxSeriesLen - 1, end_frame |-> MaxSeriesLen - 1]>>

AnalyzeGluteDominance ==
    /\ pc = "analyzer_start"
    /\ \/ \E quad \in ShortSeries, torso_known \in BOOLEAN, reps \in RepLists, fps \in FpsValues :
            LET torso == IF torso_known THEN quad ELSE ConstantSeries(Len(quad), None)
            IN  Returns("analyze_glute_dominance", <<quad, torso, reps, fps>>,
                        analyze_glute_dominance(quad, torso, reps, fps))
       \/ \E knee_onset, hip_onset \in 1..MaxSeriesLen, fps \in FpsValues :
            Returns("analyze_glute_dominance",
                    <<OnsetSeries(knee_onset), OnsetSeries(hip_onset), DescentRep, fps>>,
                    analyze_glute_dominance(OnsetSeries(knee_onset), OnsetSeries(hip_onset),
                                            DescentRep, fps))

AnalyzeKneeValgus ==
    /\ pc = "analyzer_start"
    /\ \E landmarks_list \in LandmarkLists, reps \in RepLists :
        Returns("analyze_knee_valgus", <<landmarks_list, reps>>,
                analyze_knee_valgus(landmarks_list, reps))

\* analyze_knee_valgus from the per-frame FPPA values on, for values that a
\* grid pose does not produce
RateKneeValgus ==
    /\ pc = "analyzer_start"
    /\ \E fppa_angles \in FppaSeries :
        Returns("_determine_valgus_status", <<fppa_angles>>, ValgusAnalysis(fppa_angles))

\* the key of form_analysis an analyzer's result is stored under
ComponentKey(name) ==
    CASE name = "analyze_torso_angle" -> "torso_angle"
      [] name = "analyze_quad_angle" -> "quad_angle"
      [] name = "analyze_ankle_angle" -> "ankle_angle"
      [] name = "analyze_asymmetry" -> "quad_asymmetry"
      [] name = "analyze_rep_consistency" -> "rep_consistency"
      [] name = "analyze_glute_dominance" -> "glute_dominance"
      [] name = "analyze_knee_valgus" -> "knee_valgus"
      [] name = "_determine_valgus_status" -> "knee_valgus"

\* calculate_final_score on the returned analysis and one that scores 100
AggregateReturned ==
    /\ pc = "analyzer_returned"
    /\ LET key == ComponentKey(call.name)
           other == IF key = "quad_angle" THEN "torso_angle" ELSE "quad_angle"
           fa == [k \in {key, other} |->
                     IF k = key THEN returned
                     ELSE IF k = "quad_angle" THEN analyze_quad_angle(<<80>>)
                     ELSE analyze_torso_angle(<<40>>, <<>>, <<>>)]
       IN  /\ form_analysis' = fa
           /\ final_score' = calculate_final_score(fa)
    /\ pc' = "analyzer_aggregated"
    /\ UNCHANGED <<rate_vars, token_vars, exercise_vars, call_vars, upload_vars>>

AnalyzersNext ==
    \/ AnalyzeTorso
    \/ AnalyzeQuad
    \/ AnalyzeAnkle
    \/ AnalyzeAsymmetry
    \/ AnalyzeRepConsistency
    \/ AnalyzeGluteDominance
    \/ AnalyzeKneeValgus
    \/ RateKneeValgus
    \/ AggregateReturned

SpecAnalyzers == AnalyzersInit /\ [][AnalyzersNext]_vars

\* the frames the reps cover hold no value of the series
NoValueInReps(series, reps) ==
    \A i \in 1..Len(reps) : \A f \in RepRange(reps[i]) :
        f >= Len(series) \/ At(series, f) = None

\* the analyzer's required input holds no valid value
NoValidInput ==
    LET a == call.args
    IN  CASE call.name \in {"analyze_torso_angle", "analyze_quad_angle", "analyze_ankle_angle",
                            "analyze_asymmetry"} -> NoData(a[1])
          [] call.name = "analyze_rep_consistency" ->
                \/ Len(a[3]) < 2
                \/ /\ NoValueInReps(a[1].quad_angle, a[3])
                   /\ NoValueInReps(a[1].torso_angle, a[3])
                   /\ NoValueInReps(SeriesGet(a[2], "quad_asymmetry"), a[3])
          [] call.name = "analyze_glute_dominance" ->
                NoData(a[1]) \/ NoData(a[2]) \/ a[3] = <<>>
          [] call.name = "analyze_knee_valgus" ->
                a[2] = <<>> \/ \A k \in 1..Len(a[1]) : NoPose(a[1][k])
          [] call.name = "_determine_valgus_status" -> NoData(a[1])

\* C4: an analyzer whose required input holds no valid value returns status
\* error and no score, and calculate_final_score leaves it out: next to one
\* analysis that scores 100 the final score is 100.
C4_NoInputIsErrorWithoutScore ==
    pc = "analyzer_aggregated" /\ NoValidInput =>
        /\ returned.status = "error"
        /\ "score" \notin DOMAIN returned
        /\ final_score.final_score = 100

Rated(result, status, score) == result.status = status /\ result.score = score

\* the torso rating of the claim, for a maximum and an average <<sum, count>>
TorsoRatingHolds(result, max_angle, avg_angle) ==
    /\ result.max_angle = max_angle
    /\ result.avg_angle = avg_angle
    /\ (max_angle <= 43 /\ 35 * avg_angle[2] <= avg_angle[1] /\ avg_angle[1] <= 43 * avg_angle[2])
           => Rated(result, "good", 100)
    /\ (max_angle <= 43 /\ avg_angle[1] < 35 * avg_angle[2]) => Rated(result, "good", 95)
    /\ (max_angle <= 43 /\ avg_angle[1] > 43 * avg_angle[2]) => Rated(result, "good", 90)
    /\ (43 < max_angle /\ max_angle <= 45) => Rated(result, "warning", 75)
    /\ max_angle > 45 => Rated(result, "poor", 50)

TorsoRated ==
    /\ pc = "analyzer_returned"
    /\ call.name = "analyze_torso_angle"
    /\ returned.status # "error"

\* C13: analyze_torso_angle rates the maximum and the average of the valid
\* torso angles: max <= 43 with 35 <= avg <= 43 is good/100, with avg < 35
\* good/95, with avg > 43 good/90; 43 < max <= 45 is warning/75; max > 45 is
\* poor/50.
C13_TorsoRating ==
    TorsoRated =>
        \E valid_angles \in {ValidOnly(call.args[1])} :
            TorsoRatingHolds(returned, SeqMax(valid_angles),
                             <<SeqSum(valid_angles), Len(valid_angles)>>)

\* the claim's example: average 39 and maximum 41 degrees are rated good/100
C13_Witness ==
    /\ TorsoRated
    /\ returned.max_angle = 41
    /\ returned.avg_angle[1] = 39 * returned.avg_angle[2]
    /\ Rated(returned, "good", 100)

AsymmetryRated ==
    /\ pc = "analyzer_returned"
    /\ call.name = "analyze_asymmetry"
    /\ returned.status # "error"

\* the largest absolute value among the valid entries of a series
MaxAbsolute(series) == SetMax({Abs(series[k]) : k \in {j \in 1..Len(series) : series[j] # None}})

ConsistencyReturned == pc = "analyzer_returned" /\ call.name = "analyze_rep_consistency"

\* a sub-metric is rated from the coefficient of variation of its per-rep
\* values, where that exists
RatedFromCv(sub, cv) ==
    /\ cv \in {"zero", "negative", "below5"} => sub.status = "good"
    /\ cv = "below10" => sub.status = "warning"
    /\ cv = "from10" => sub.status = "poor"

\* the coefficient of variation of a sub-metric over the reps of the call
CvOverReps(series, metric_type) ==
    _calculate_consistency_metrics(_extract_per_rep_metrics(series, call.args[3], metric_type))

\* C15: analyze_rep_consistency returns an error without a score for fewer
\* than 2 reps; with 2 or more reps each sub-metric is rated from its
\* coefficient of variation: CV < 5 good, 5 <= CV < 10 warning, CV >= 10
\* poor, for every CV including CV = 0 (identical reps).
C15_RatedFromEveryCv ==
    ConsistencyReturned =>
        IF Len(call.args[3]) < 2
        THEN returned.status = "error" /\ "score" \notin DOMAIN returned
        ELSE /\ RatedFromCv(returned.depth_consistency,
                            CvOverReps(SeriesGet(call.args[1], "quad_angle"), "max"))
             /\ RatedFromCv(returned.torso_consistency,
                            CvOverReps(SeriesGet(call.args[1], "torso_angle"), "avg"))
             /\ RatedFromCv(returned.asymmetry_consistency,
                            CvOverReps(SeriesGet(call.args[2], "quad_asymmetry"), "avg"))

GluteDominanceRated ==
    /\ pc = "analyzer_returned"
    /\ call.name = "analyze_glute_dominance"
    /\ returned.status # "error"

\* the frames by which the hip onset comes before the knee onset, per rep
HipLeadFrames(quad_angles, torso_angles, reps, fps) ==
    [k \in 1..Len(reps) |->
        _detect_movement_start_velocity(quad_angles, reps[k].start_frame,
                                        reps[k].bottom_frame, fps)
        - _detect_movement_start_velocity(torso_angles, reps[k].start_frame,
                                          reps[k].bottom_frame, fps)]

\* the average of the leads, frames / fps * 1000 ms with fps in hundredths,
\* is at least (more than) 50 ms
LeadsByFifty(leads, fps) == SeqSum(leads) * 100000 >= 50 * fps * Len(leads)
LeadsByMoreThanFifty(leads, fps) == SeqSum(leads) * 100000 > 50 * fps * Len(leads)

\* C16: analyze_glute_dominance returns good/100 exactly when the hip onset
\* comes before the knee onset by at least 50 ms on average over the reps,
\* poor/50 exactly when the knee onset comes before the hip onset by more
\* than 50 ms, and warning/75 otherwise.
C16_HipLeadIsGood ==
    GluteDominanceRated =>
        \E leads \in {HipLeadFrames(call.args[1], call.args[2], call.args[3], call.args[4])} :
            IF LeadsByFifty(leads, call.args[4]) THEN Rated(returned, "good", 100)
            ELSE IF LeadsByMoreThanFifty([k \in 1..Len(leads) |-> -leads[k]], call.args[4])
            THEN Rated(returned, "poor", 50)
            ELSE Rated(returned, "warning", 75)

KneeValgusRated ==
    /\ pc = "analyzer_returned"
    /\ call.name \in {"analyze_knee_valgus", "_determine_valgus_status"}
    /\ returned.status # "error"

\* d = max |180 - FPPA| over a list of FPPA values, and the first value of
\* the list that attains it
MaxDeviation(fppa) == SetMax({Abs(Deg(180) - fppa[k]) : k \in 1..Len(fppa)})
MostExtreme(fppa) ==
    fppa[SetMin({k \in 1..Len(fppa) : Abs(Deg(180) - fppa[k]) = MaxDeviation(fppa)})]

\* the knee-valgus rating of the claim
ValgusRatingHolds(result, d, extreme) ==
    /\ result.max_deviation_from_180 = d
    /\ d < Deg(4) => Rated(result, "good", 100)
    /\ (Deg(4) <= d /\ d < Deg(8)) => Rated(result, "warning", 75)
    /\ (d >= Deg(8) /\ extreme < Deg(180)) => Rated(result, "poor", 50)
    /\ (d >= Deg(8) /\ extreme >= Deg(180)) => Rated(result, "warning", 75)

\* C17: the knee-valgus rating of a non-empty list of FPPA values uses
\* d = max |180 - FPPA| and the FPPA that attains it: d < 4 is good/100,
\* 4 <= d < 8 is warning/75, d >= 8 is poor/50 when that FPPA is below 180
\* (valgus) and warning/75 when it is 180 or above (varus).
C17_ValgusRating ==
    KneeValgusRated =>
        \E valid_fppa \in {ValidOnly(returned.fppa_per_frame)} :
            ValgusRatingHolds(returned, MaxDeviation(valid_fppa), MostExtreme(valid_fppa))

\* a varus deviation of 8 degrees, larger than every valgus deviation of the
\* list, was rated warning/75
C17_Witness ==
    /\ KneeValgusRated
    /\ returned.max_deviation_from_180 = Deg(8)
    /\ \A k \in 1..Len(returned.fppa_per_frame) : returned.fppa_per_frame[k] > Deg(172)
    /\ Rated(returned, "warning", 75)

(***************************************************************************)
(* SpecAngle: get_segment_angle and get_ankle_segment_angle on every pair  *)
(* of grid points, and calculate_squat_form on a recording of two frames,  *)
(* the second without a detected pose.                                     *)
(***************************************************************************)
GridMax == 5
Grid == (0..GridMax) \X (0..GridMax)
GridBorder == {pt \in Grid : pt[1] \in {0, GridMax} \/ pt[2] \in {0, GridMax}}

\* landmarks 11/12 shoulders, 23/24 hips, 25/26 knees, 29/30 heels; the
\* right side mirrors the left one
Mirror(pt) == <<GridMax - pt[1], pt[2]>>
Pose(shoulder, hip, knee, heel) ==
    (11 :> shoulder) @@ (23 :> hip) @@ (25 :> knee) @@ (29 :> heel) @@
    (12 :> Mirror(shoulder)) @@ (24 :> hip) @@ (26 :> Mirror(knee)) @@ (30 :> heel)

AngleInit ==
    /\ pc = "angle_start"
    /\ form_analysis = <<>>
    /\ final_score = None
    /\ ExerciseIdle
    /\ NoCall
    /\ NoUpload
    /\ NoTokens
    /\ NoRateLimit

AngleReturns(name, args, value) ==
    /\ pc = "angle_start"
    /\ call' = [name |-> name, args |-> args]
    /\ returned' = value
    /\ pc' = "angle_returned"
    /\ UNCHANGED <<rate_vars, token_vars, score_vars, exercise_vars, upload_vars>>

GetSegmentAngle ==
    \E point1, point2 \in Grid :
        AngleReturns("get_segment_angle", <<point1, point2>>,
                     get_segment_angle(point1, point2))

GetAnkleSegmentAngle ==
    \E point1, point2 \in Grid :
        AngleReturns("get_ankle_segment_angle", <<point1, point2>>,
                     get_ankle_segment_angle(point1, point2))

CalculateSquatForm ==
    \E shoulder, knee \in GridBorder, hip, heel \in {<<2, 2>>, <<GridMax, 0>>} :
        LET landmarks_list == <<Pose(shoulder, hip, knee, heel), <<>>>>
        IN  AngleReturns("calculate_squat_form", <<landmarks_list>>,
                         calculate_squat_form(landmarks_list))

AngleNext == GetSegmentAngle \/ GetAnkleSegmentAngle \/ CalculateSquatForm

SpecAngle == AngleInit /\ [][AngleNext]_vars

WithinZeroToNinety(angle) == 0 <= angle /\ angle <= Deg(90)

\* C10: get_segment_angle and get_ankle_segment_angle return an angle in
\* [0, 90] degrees for every pair of points, and every entry of the torso,
\* quad and ankle series is missing or in [0, 90] degrees.
C10_AnglesWithinZeroToNinety ==
    pc = "angle_returned" =>
        IF call.name = "calculate_squat_form"
        THEN \A key \in {"torso_angle", "quad_angle", "ankle_angle"} :
                \A k \in 1..Len(returned.angles_per_frame[key]) :
                    \/ returned.angles_per_frame[key][k] = None
                    \/ WithinZeroToNinety(returned.angles_per_frame[key][k])
        ELSE WithinZeroToNinety(returned)

\* an angle from the last branch of get_segment_angle (a segment pointing
\* down and to the right) was returned, strictly inside the range
C10_Witness ==
    /\ pc = "angle_returned"
    /\ call.name = "get_segment_angle"
    /\ AngleFromHorizontal(call.args[1], call.args[2]) > Deg(270)
    /\ 0 < returned /\ returned < Deg(90)

GetSegmentAngleReturned == pc = "angle_returned" /\ call.name = "get_segment_angle"

\* the first three quadrants of the fold, on which the code and its
\* description agree
FirstThreeQuadrants(v, angle) ==
    /\ (0 < v /\ v <= Deg(90)) => angle = Deg(90) - v
    /\ (Deg(90) < v /\ v <= Deg(180)) => angle = v - Deg(90)
    /\ (Deg(180) < v /\ v <= Deg(270)) => angle = Deg(270) - v

\* C11 as stated: get_segment_angle folds the angle from the horizontal v,
\* wrapped into [0, 360), by quadrant: (0, 90] gives 90 - v, (90, 180] gives
\* v - 90, (180, 270] gives 270 - v and (270, 360) gives 360 - v.
C11_FoldByQuadrant ==
    GetSegmentAngleReturned =>
        \E v \in {AngleFromHorizontal(call.args[1], call.args[2])} :
            /\ FirstThreeQuadrants(v, returned)
            /\ (Deg(270) < v /\ v < Deg(360)) => returned = Deg(360) - v

\* C11 amended: the same fold, except that (270, 360) gives v - 270, the
\* angle between the segment and the downward vertical.
C11_FoldFromVertical ==
    GetSegmentAngleReturned =>
        \E v \in {AngleFromHorizontal(call.args[1], call.args[2])} :
            /\ FirstThreeQuadrants(v, returned)
            /\ (Deg(270) < v /\ v < Deg(360)) => returned = v - Deg(270)

\* a segment in the fourth quadrant, away from the diagonal on which
\* 360 - v and v - 270 coincide, was folded
C11_Witness ==
    /\ GetSegmentAngleReturned
    /\ AngleFromHorizontal(call.args[1], call.args[2]) > Deg(270)
    /\ AngleFromHorizontal(call.args[1], call.args[2]) # Deg(315)
    /\ returned = AngleFromHorizontal(call.args[1], call.args[2]) - Deg(270)

\* the asymmetry of one frame as the claim defines it: right minus left of
\* the per-side angles, missing when the frame has no pose
SideDifference(landmarks, key) ==
    IF NoPose(landmarks) THEN None
    ELSE CASE key = "torso_asymmetry" ->
                get_segment_angle(landmarks[24], landmarks[12])
                    - get_segment_angle(landmarks[23], landmarks[11])
           [] key = "quad_asymmetry" ->
                get_segment_angle(landmarks[24], landmarks[26])
                    - get_segment_angle(landmarks[23], landmarks[25])
           [] key = "ankle_asymmetry" ->
                get_ankle_segment_angle(landmarks[30], landmarks[26])
                    - get_ankle_segment_angle(landmarks[29], landmarks[25])

\* C12: calculate_squat_form returns the torso, quad and ankle series and
\* three asymmetry series; each of the six has one entry per input frame, the
\* entry of a frame without a pose is missing in all of them, and an
\* asymmetry entry is the right per-side angle minus the left one.
C12_SixAlignedSeries ==
    (pc = "angle_returned" /\ call.name = "calculate_squat_form") =>
        /\ \A key \in {"torso_angle", "quad_angle", "ankle_angle"} :
              /\ Len(returned.angles_per_frame[key]) = Len(call.args[1])
              /\ \A k \in 1..Len(call.args[1]) :
                    NoPose(call.args[1][k]) <=> returned.angles_per_frame[key][k] = None
        /\ "asymmetry_per_frame" \in DOMAIN returned
        /\ \A key \in {"torso_asymmetry", "quad_asymmetry", "ankle_asymmetry"} :
              /\ key \in DOMAIN returned.asymmetry_per_frame
              /\ Len(returned.asymmetry_per_frame[key]) = Len(call.args[1])
              /\ \A k \in 1..Len(call.args[1]) :
                    returned.asymmetry_per_frame[key][k] = SideDifference(call.args[1][k], key)

(***************************************************************************)
(* SpecUpload: one request to POST /upload-video.  The versions of         *)
(* save_video_temp, extract_frames, process_frames_with_pose,              *)
(* detect_camera_angle, draw_landmarks_on_frames and save_frames_as_video  *)
(* that upload_video calls are not among the sources; they are taken to    *)
(* return normally, and detect_camera_angle to return the Camera Angle     *)
(* Info {angle_estimate, should_reject, message} of the specification.     *)
(***************************************************************************)
MAX_FILE_SIZE == 500 * 1024 * 1024

Requests ==
    [exercise : 0..4, filename : {"", "squat.mp4"},
     content_type : {"", "image/png", "video/mp4"},
     file_size : {0, 99, 100, 4096, MAX_FILE_SIZE, MAX_FILE_SIZE + 1}]

\* accept_video_file raises ValueError("File must be a video")
NotAVideo(content_type) == content_type # "video/mp4"

\* the detail of the HTTP 400 the validation raises, or "ok"
ValidationOutcome(req) ==
    IF req.exercise \notin {1, 2, 3} THEN "Invalid exercise type"
    ELSE IF req.filename = "" THEN "No file provided"
    ELSE IF NotAVideo(req.content_type) THEN "File must be a video"
    ELSE IF req.file_size = 0 THEN "Empty file received"
    ELSE IF req.file_size > MAX_FILE_SIZE THEN "File too large"
    ELSE IF req.file_size < 100 THEN "File appears to be too small to be a valid video"
    ELSE "ok"

HTTPException(status_code, detail) == [status_code |-> status_code, detail |-> detail]

\* the camera-angle estimate of a recording seen from `angle` degrees off
\* the frontal view (None when no pose was found)
detect_camera_angle(angle) ==
    [angle_estimate |-> angle,
     should_reject |-> angle # None /\ angle > 25,
     message |-> IF angle # None /\ angle > 25 THEN "Camera angle too extreme" ELSE "ok"]

\* a variant that never asks to reject
RejectsCameraAngle_never(camera_angle_info) ==
    IF "reject" \in DOMAIN camera_angle_info THEN camera_angle_info["reject"] ELSE FALSE

\* camera_angle_info.get("should_reject", False)
RejectsCameraAngle(camera_angle_info) ==
    IF "should_reject" \in DOMAIN camera_angle_info
    THEN camera_angle_info["should_reject"] ELSE FALSE

route_to_exercise_calculation(exercise, landmarks_list) ==
    IF exercise = 1 THEN calculate_squat_form(landmarks_list)
    ELSE IF exercise = 2 THEN [exercise |-> 2, message |-> "Exercise 2 not implemented"]
    ELSE [exercise |-> 3, message |-> "Exercise 3 not implemented"]

\* what pose estimation can make of a recording: no frame at all, no pose
\* in any frame, a pose in some frames
PoseOutcomes ==
    {<<>>, <<<<>>, <<>>>>,
     <<Pose(<<2, 0>>, <<2, 2>>, <<3, 4>>, <<2, 5>>), <<>>>>,
     <<Pose(<<2, 0>>, <<2, 2>>, <<3, 4>>, <<2, 5>>), Pose(<<3, 0>>, <<2, 2>>, <<4, 3>>, <<2, 5>>)>>}

Viewpoints == {None, 0, 10, 25, 26, 45, 90}

UploadInit ==
    /\ pc = "upload_start"
    /\ form_analysis = <<>>
    /\ final_score = None
    /\ ExerciseIdle
    /\ NoCall
    /\ request \in Requests
    /\ response = None
    /\ steps = <<>>
    /\ NoTokens
    /\ NoRateLimit

\* the checks of the request, up to "Video received and validated"
ValidateUpload ==
    /\ pc = "upload_start"
    /\ IF ValidationOutcome(request) = "ok"
       THEN pc' = "validated" /\ response' = None
       ELSE pc' = "upload_done"
            /\ response' = HTTPException(400, ValidationOutcome(request))
    /\ UNCHANGED <<rate_vars, token_vars, score_vars, exercise_vars, call_vars, request, steps>>

\* save_video_temp, extract_frames, process_frames_with_pose
ProcessFrames ==
    /\ pc = "validated"
    /\ \E landmarks_list \in PoseOutcomes, fps \in FpsValues :
        /\ pose_landmarks' = landmarks_list
        /\ video_fps' = fps
    /\ steps' = steps \o <<"save_video_temp", "extract_frames", "process_frames_with_pose">>
    /\ pc' = "pose_estimated"
    /\ UNCHANGED <<rate_vars, token_vars, score_vars, calc_results, camera_info, validation, squat_phases,
                   form_result, call_vars, request, response>>

\* camera_angle_info = detect_camera_angle(landmarks_list)
DetectCameraAngle ==
    /\ pc = "pose_estimated"
    /\ \E angle \in Viewpoints : camera_info' = detect_camera_angle(angle)
    /\ steps' = Append(steps, "detect_camera_angle")
    /\ pc' = "camera_checked"
    /\ UNCHANGED <<rate_vars, token_vars, score_vars, calc_results, video_fps, pose_landmarks, validation,
                   squat_phases, form_result, call_vars, request, response>>

\* raise HTTPException(400, camera_angle_too_extreme); finally: unlink
RejectCameraAngle ==
    /\ pc = "camera_checked"
    /\ RejectsCameraAngle(camera_info)
    /\ response' = HTTPException(400,
                       [error |-> "camera_angle_too_extreme",
                        message |-> camera_info["message"],
                        angle_estimate |-> camera_info["angle_estimate"]])
    /\ steps' = Append(steps, "unlink_temp")
    /\ pc' = "upload_done"
    /\ UNCHANGED <<rate_vars, token_vars, score_vars, exercise_vars, call_vars, request>>

\* calculation_results = route_to_exercise_calculation(exercise, landmarks_list)
RouteToCalculation ==
    /\ pc = "camera_checked"
    /\ ~RejectsCameraAngle(camera_info)
    /\ calc_results' = route_to_exercise_calculation(request.exercise, pose_landmarks)
    /\ steps' = Append(steps, "route_to_exercise_calculation")
    /\ pc' = "calculated"
    /\ UNCHANGED <<rate_vars, token_vars, score_vars, video_fps, camera_info, pose_landmarks, validation,
                   squat_phases, form_result, call_vars, request, response>>

\* annotated_frames = draw_landmarks_on_frames(...)
DrawLandmarks ==
    /\ pc = "calculated"
    /\ steps' = Append(steps, "draw_landmarks_on_frames")
    /\ pc' = "drawn"
    /\ UNCHANGED <<rate_vars, token_vars, score_vars, exercise_vars, call_vars, request, response>>

\* save_frames_as_video(annotated_frames, output_path, fps)
SaveVisualization ==
    /\ pc = "drawn"
    /\ steps' = Append(steps, "save_frames_as_video")
    /\ pc' = "visualization_saved"
    /\ UNCHANGED <<rate_vars, token_vars, score_vars, exercise_vars, call_vars, request, response>>

\* return {"status": "success", ...}; finally: unlink
RespondSuccess ==
    /\ pc = "visualization_saved"
    /\ response' = [status_code |-> 200, status |-> "success",
                    exercise |-> request.exercise,
                    frame_count |-> Len(pose_landmarks),
                    calculation_results |-> calc_results,
                    camera_angle_info |-> camera_info]
    /\ steps' = Append(steps, "unlink_temp")
    /\ pc' = "upload_done"
    /\ UNCHANGED <<rate_vars, token_vars, score_vars, exercise_vars, call_vars, request>>

UploadNext ==
    \/ ValidateUpload
    \/ ProcessFrames
    \/ DetectCameraAngle
    \/ RejectCameraAngle
    \/ RouteToCalculation
    \/ DrawLandmarks
    \/ SaveVisualization
    \/ RespondSuccess

SpecUpload == UploadInit /\ [][UploadNext]_vars

StepsMade == {steps[k] : k \in 1..Len(steps)}
AnalysisSteps ==
    {"route_to_exercise_calculation", "draw_landmarks_on_frames", "save_frames_as_video"}
CameraChecked ==
    pc \in {"camera_checked", "calculated", "drawn", "visualization_saved"}
    \/ (pc = "upload_done" /\ "detect_camera_angle" \in StepsMade)

Absent == <<"absent">>
ErrorResult == <<"error">>
WithScore(S) == {<<"score", sc>> : sc \in S}

TorsoScores == {100, 95, 90, 75, 50}
ThreeScores == {100, 75, 50}
ConsistencyScores == {0, 50, 75, 83, 100}

AnalysisOf(opt) ==
    IF opt = ErrorResult THEN [status |-> "error", message |-> "no data"]
    ELSE [status |-> IF opt[2] >= 95 THEN "good" ELSE IF opt[2] >= 75 THEN "warning" ELSE "poor",
          score |-> opt[2], message |-> "scored"]

FormAnalysisOf(opts) ==
    [k \in {key \in DOMAIN opts : opts[key] # Absent} |-> AnalysisOf(opts[k])]

ScoreInit ==
    /\ pc = "score_start"
    /\ final_score = None
    /\ ExerciseIdle
    /\ NoCall
    /\ NoUpload
    /\ NoTokens
    /\ NoRateLimit
    /\ \E t \in WithScore(TorsoScores) \cup {ErrorResult},
          q \in WithScore(ThreeScores) \cup {ErrorResult},
          g \in WithScore(ThreeScores) \cup {ErrorResult, Absent},
          r \in WithScore(ConsistencyScores) \cup {ErrorResult},
          ta \in WithScore(ThreeScores) \cup {ErrorResult},
          qa \in WithScore(ThreeScores) \cup {ErrorResult},
          aa \in WithScore(ThreeScores) \cup {ErrorResult} :
            form_analysis = FormAnalysisOf(
                [torso_angle |-> t, quad_angle |-> q, glute_dominance |-> g,
                 rep_consistency |-> r, torso_asymmetry |-> ta, quad_asymmetry |-> qa,
                 ankle_asymmetry |-> aa])

CalculateFinalScore ==
    /\ pc = "score_start"
    /\ final_score' = calculate_final_score(form_analysis)
    /\ pc' = "score_done"
    /\ UNCHANGED <<rate_vars, token_vars, form_analysis, exercise_vars, call_vars, upload_vars>>

ScoreNext == CalculateFinalScore

SpecScore == ScoreInit /\ [][ScoreNext]_vars

(***************************************************************************)
(* Claims about the score aggregator (SpecScore)                           *)
(***************************************************************************)
ScoredKeys(fa) == {k \in DOMAIN WeightPct : Scored(fa, k)}

RECURSIVE PctSum(_, _, _)
\* sum over the scored keys among the first i of f(key), in hundredths
PctSum(fa, i, withScore) ==
    IF i = 0 THEN 0
    ELSE PctSum(fa, i - 1, withScore)
         + (IF Scored(fa, WeightKeys[i])
            THEN WeightPct[WeightKeys[i]] * (IF withScore THEN fa[WeightKeys[i]].score ELSE 1)
            ELSE 0)

ExactNum(fa) == PctSum(fa, Len(WeightKeys), TRUE)
ExactDen(fa) == PctSum(fa, Len(WeightKeys), FALSE)

\* C2: metrics that are missing or carry no score are left out of the
\* weighted sum and of the weight total, so whenever all the metrics that
\* do carry a score carry the same score s, the final score is s.
C2_SameScoreGivesThatScore ==
    pc = "score_done" =>
        \A s \in 0..100 :
            (/\ ScoredKeys(form_analysis) # {}
             /\ \A k \in ScoredKeys(form_analysis) : form_analysis[k].score = s)
            => final_score.final_score = s

\* C3: the final score is the weighted mean of the scored metrics rounded
\* to the nearest integer.
C3_FinalScoreIsRoundedMean ==
    pc = "score_done" /\ ScoredKeys(form_analysis) # {} =>
        2 * Abs(final_score.final_score * ExactDen(form_analysis) - ExactNum(form_analysis))
            <= ExactDen(form_analysis)

\* the grade the claim gives a final score
GradeMatches(score, grade) ==
    /\ grade = "Excellent" <=> score >= 90
    /\ grade = "Good" <=> (75 <= score /\ score < 90)
    /\ grade = "Fair" <=> (60 <= score /\ score < 75)
    /\ grade = "Needs Improvement" <=> score < 60

\* C19: calculate_final_score returns a whole final_score in [0, 100] and the
\* grade Excellent iff it is >= 90, Good iff 75 <= it < 90, Fair iff
\* 60 <= it < 75 and Needs Improvement iff it is < 60; when no weighted
\* metric has a score, final_score is 0 and the grade Needs Improvement.
C19_ScoreRangeAndGrade ==
    pc = "score_done" =>
        /\ final_score.final_score \in 0..100
        /\ GradeMatches(final_score.final_score, final_score.grade)
        /\ ScoredKeys(form_analysis) = {} =>
               /\ final_score.final_score = 0
               /\ final_score.grade = "Needs Improvement"

\* a final score of exactly 90, from metrics that do not all score 90, was
\* graded Excellent
C19_Witness ==
    /\ pc = "score_done"
    /\ final_score.final_score = 90
    /\ final_score.grade = "Excellent"
    /\ \E k \in ScoredKeys(form_analysis) : form_analysis[k].score # 90

(***************************************************************************)
(* Token accounting (shared/payment/token_utils.py) for one user.  A row   *)
(* of TokenTransaction is a record; a credit has a positive amount, a      *)
(* debit a negative one and metadata['deducted_from'].  The queries of a   *)
(* call read the rows the session holds when the call starts: SessionLocal *)
(* is made with autoflush=False, and deduct_tokens does not flush.         *)
(***************************************************************************)
TokenTransaction(token_type, amount, source, expires_at, deducted_from) ==
    [token_type |-> token_type, amount |-> amount, source |-> source,
     expires_at |-> expires_at, deducted_from |-> deducted_from]

\* func.sum(func.abs(TokenTransaction.amount)), 0 without rows
SumOfAmounts(rows) == SeqSum([k \in 1..Len(rows) |-> Abs(rows[k].amount)])

\* or_(expires_at.is_(None), expires_at > now)
NotExpired(row, at) == row.expires_at = None \/ row.expires_at > at

\* ~(a AND b) as SQL evaluates it: no source filter when source is "any"
SourceIs(row, source) == source = "any" \/ row.source = source

\* the credits of a token type and source; only free credits expire
CreditsOf(rows, token_type, source, at) ==
    SumOfAmounts(SelectSeq(rows, LAMBDA row :
        /\ row.token_type = token_type
        /\ SourceIs(row, source)
        /\ row.amount > 0
        /\ (token_type = "free" => NotExpired(row, at))))

DebitsOf(rows, token_type, source) ==
    SumOfAmounts(SelectSeq(rows, LAMBDA row :
        /\ row.token_type = token_type
        /\ SourceIs(row, source)
        /\ row.amount < 0))

calculate_token_balance(rows, at) ==
    [free_tokens |-> Max(0, CreditsOf(rows, "free", "any", at) - DebitsOf(rows, "free", "any")),
     purchased_tokens |-> Max(0, CreditsOf(rows, "purchased", "any", at)
                                 - DebitsOf(rows, "purchased", "any"))]

TotalBalance(balance) == balance.free_tokens + balance.purchased_tokens

_calculate_source_balance(rows, token_type, source, at) ==
    Max(0, CreditsOf(rows, token_type, source, at) - DebitsOf(rows, token_type, source))

\* min(remaining_to_deduct, balance) where both are positive, else nothing
DeductAmount(remaining_to_deduct, balance) ==
    IF remaining_to_deduct > 0 /\ balance > 0 THEN Min(remaining_to_deduct, balance) ELSE 0

\* other_free_balance of step 3
OtherFreeBalance(rows, free_tokens, monthly_balance, promo_balance, at) ==
    LET other_free_balance ==
            _calculate_source_balance(rows, "free", "signup_bonus", at)
            + _calculate_source_balance(rows, "free", "referral_bonus", at)
        total_accounted_free == monthly_balance + promo_balance + other_free_balance
    IN  IF free_tokens > total_accounted_free
        THEN other_free_balance + (free_tokens - total_accounted_free)
        ELSE other_free_balance

\* the debit rows of one call, in the order they are added; a bucket that
\* gives nothing adds no row
DebitRows(source, from_monthly, from_promo, from_other, from_purchased) ==
    (IF from_monthly > 0
     THEN <<TokenTransaction("free", -from_monthly, source, None, "monthly_allotment")>>
     ELSE <<>>)
    \o (IF from_promo > 0
        THEN <<TokenTransaction("free", -from_promo, source, None, "promotional")>>
        ELSE <<>>)
    \o (IF from_other > 0
        THEN <<TokenTransaction("free", -from_other, source, None, "other_free")>>
        ELSE <<>>)
    \o (IF from_purchased > 0
        THEN <<TokenTransaction("purchased", -from_purchased, source, None, "purchased")>>
        ELSE <<>>)

\* step 4 and the return: what is left goes to the purchased tokens, or the
\* session is rolled back
DeductPurchased(source, purchased_tokens, amount, from_monthly, from_promo, from_other) ==
    IF amount - from_monthly - from_promo - from_other > purchased_tokens
    THEN [result |-> "False", added |-> <<>>]
    ELSE [result |-> "True",
          added |-> DebitRows(source, from_monthly, from_promo, from_other,
                              amount - from_monthly - from_promo - from_other)]

\* steps 2 and 3, after from_monthly was taken from monthly_balance
DeductFree(rows, amount, source, at, balance, monthly_balance, from_monthly) ==
    LET promo_balance == _calculate_source_balance(rows, "free", "promotional", at)
        from_promo == DeductAmount(amount - from_monthly, promo_balance)
        from_other ==
            DeductAmount(amount - from_monthly - from_promo,
                         OtherFreeBalance(rows, balance.free_tokens, monthly_balance,
                                          promo_balance, at))
    IN  DeductPurchased(source, balance.purchased_tokens, amount,
                        from_monthly, from_promo, from_other)

\* a variant that also refuses a deduction of the whole balance
deduct_tokens_strict(rows, amount, source, at) ==
    IF amount <= 0 THEN [result |-> "ValueError", added |-> <<>>]
    ELSE IF TotalBalance(calculate_token_balance(rows, at)) <= amount
    THEN [result |-> "False", added |-> <<>>]
    ELSE DeductFree(rows, amount, source, at, calculate_token_balance(rows, at),
                    _calculate_source_balance(rows, "free", "monthly_allotment", at),
                    DeductAmount(amount, _calculate_source_balance(
                                             rows, "free", "monthly_allotment", at)))

\* [result, added]: what the call returns ("True", "False") or raises, and
\* the rows it adds to the session
deduct_tokens(rows, amount, source, at) ==
    IF amount <= 0 THEN [result |-> "ValueError", added |-> <<>>]
    ELSE IF TotalBalance(calculate_token_balance(rows, at)) < amount
    THEN [result |-> "False", added |-> <<>>]
    ELSE DeductFree(rows, amount, source, at, calculate_token_balance(rows, at),
                    _calculate_source_balance(rows, "free", "monthly_allotment", at),
                    DeductAmount(amount, _calculate_source_balance(
                                             rows, "free", "monthly_allotment", at)))

add_tokens(amount, token_type, source, expires_at) ==
    IF amount <= 0 \/ token_type \notin {"free", "purchased"}
    THEN [result |-> "ValueError", added |-> <<>>]
    ELSE [result |-> "TokenTransaction",
          added |-> <<TokenTransaction(token_type, amount, source, expires_at, "none")>>]

(***************************************************************************)
(* SpecTokens: add_tokens and deduct_tokens calls of one user, in any      *)
(* order, while time passes.  A grant holds MaxAmount tokens; a deduction  *)
(* asks for up to MaxAmount.                                               *)
(***************************************************************************)
MaxAmount == 2
MaxCredits == 2
MaxDebits == 2
MaxNow == 1

\* the grants a caller makes: a monthly allotment with or without an expiry
\* date ahead, promotional and sign-up tokens, and purchased tokens
Grants(at) ==
    {<<"free", "monthly_allotment", expires_at>> : expires_at \in {None, at + 1}}
    \cup {<<"free", source, None>> : source \in {"promotional", "signup_bonus"}}
    \cup {<<"purchased", "stripe_purchase", None>>}

CreditCount == Len(SelectSeq(transactions, LAMBDA row : row.amount > 0))
DebitCount == Len(SelectSeq(transactions, LAMBDA row : row.amount < 0))

TokensInit ==
    /\ pc = "tokens"
    /\ form_analysis = <<>>
    /\ final_score = None
    /\ ExerciseIdle
    /\ NoCall
    /\ NoUpload
    /\ NoTokens
    /\ NoRateLimit

\* a call returned `outcome`, and the caller committed the session
TokenCall(name, args, outcome) ==
    /\ call' = [name |-> name, args |-> args, now |-> now]
    /\ returned' = outcome.result
    /\ transactions' = transactions \o outcome.added
    /\ UNCHANGED <<rate_vars, pc, now, score_vars, exercise_vars, upload_vars>>

AddTokens ==
    /\ pc = "tokens"
    /\ CreditCount < MaxCredits
    /\ \E amount \in {0, MaxAmount}, grant \in Grants(now) :
        TokenCall("add_tokens", <<transactions, amount, grant[1], grant[2], grant[3]>>,
                  add_tokens(amount, grant[1], grant[2], grant[3]))

DeductTokens ==
    /\ pc = "tokens"
    /\ DebitCount < MaxDebits
    /\ \E amount \in 0..MaxAmount :
        TokenCall("deduct_tokens", <<transactions, amount, "analysis_usage">>,
                  deduct_tokens(transactions, amount, "analysis_usage", now))

\* time passes between two calls
Tick ==
    /\ pc = "tokens"
    /\ now < MaxNow
    /\ now' = now + 1
    /\ UNCHANGED <<rate_vars, pc, transactions, score_vars, exercise_vars, call_vars, upload_vars>>

TokensNext == AddTokens \/ DeductTokens \/ Tick

SpecTokens == TokensInit /\ [][TokensNext]_vars

(***************************************************************************)
(* Claims about the token accounting (SpecTokens)                          *)
(***************************************************************************)
DeductSucceeded ==
    /\ DOMAIN call # {}
    /\ call.name = "deduct_tokens"
    /\ returned = "True"

\* the rows the last call added
AddedRows == SubSeq(transactions, Len(call.args[1]) + 1, Len(transactions))

Buckets == <<"monthly_allotment", "promotional", "other_free", "purchased">>

\* what the debit rows took from a bucket
TakenFrom(rows, bucket) ==
    SumOfAmounts(SelectSeq(rows, LAMBDA row : row.amount < 0 /\ row.deducted_from = bucket))

\* the credits of a bucket that have not expired
BucketCredits(rows, bucket, at) ==
    CASE bucket = "purchased" -> CreditsOf(rows, "purchased", "any", at)
      [] bucket = "other_free" ->
            CreditsOf(rows, "free", "any", at)
            - CreditsOf(rows, "free", "monthly_allotment", at)
            - CreditsOf(rows, "free", "promotional", at)
      [] OTHER -> CreditsOf(rows, "free", bucket, at)

\* a bucket's remaining unspent, unexpired balance
Remaining(rows, bucket, at) ==
    Max(0, BucketCredits(rows, bucket, at) - TakenFrom(rows, bucket))

RemainingFree(rows, at) ==
    Remaining(rows, "monthly_allotment", at) + Remaining(rows, "promotional", at)
    + Remaining(rows, "other_free", at)

\* C20: deduct_tokens consumes the buckets in the order monthly allotment,
\* promotional, other free tokens, purchased: a debit taken from a bucket is
\* at most the bucket's remaining unspent, unexpired balance, a later bucket
\* is touched only when the earlier ones are used up, and the purchased
\* tokens pay only the part of the amount above the remaining free tokens.
C20_BucketsInOrder ==
    DeductSucceeded =>
        \E db \in {call.args[1]}, added \in {AddedRows} :
            /\ \A i \in 1..4 :
                  TakenFrom(added, Buckets[i]) <= Remaining(db, Buckets[i], call.now)
            /\ \A i, j \in 1..4 :
                  (i < j /\ TakenFrom(added, Buckets[j]) > 0)
                  => TakenFrom(added, Buckets[i]) = Remaining(db, Buckets[i], call.now)
            /\ TakenFrom(added, "purchased")
                  = Max(0, call.args[2] - RemainingFree(db, call.now))

DeductCalled == DOMAIN call # {} /\ call.name = "deduct_tokens"

\* balance.total of the rows the call found
TotalWhenCalled == TotalBalance(calculate_token_balance(call.args[1], call.now))

\* C21: deduct_tokens returns True iff the total balance (free + purchased,
\* as calculate_token_balance computes it) was at least the amount when it
\* was called; when it returns False it adds no transaction; and a call with
\* amount <= 0 raises ValueError without adding a transaction.
C21_TrueIffBalanceSuffices ==
    DeductCalled =>
        IF call.args[2] <= 0
        THEN returned = "ValueError" /\ AddedRows = <<>>
        ELSE /\ returned \in {"True", "False"}
             /\ returned = "True" <=> TotalWhenCalled >= call.args[2]
             /\ returned = "False" => AddedRows = <<>>

\* a deduction of exactly the whole balance, part of it purchased tokens,
\* was granted
C21_Witness ==
    /\ DeductSucceeded
    /\ TotalWhenCalled = call.args[2]
    /\ TakenFrom(AddedRows, "purchased") > 0

\* C27: with no token expiring in between, every deduct_tokens(amount) that
\* returns True lowers calculate_token_balance(...).total by exactly amount
\* (so the total spent never exceeds the total credited).
C27_DeductLowersTotalByAmount ==
    DeductSucceeded =>
        TotalBalance(calculate_token_balance(transactions, call.now))
            = TotalWhenCalled - call.args[2]

(***************************************************************************)
(* Claims about the peak filters and the rep boundaries (Spec)             *)
(***************************************************************************)
SquatThreshold == _calculate_baseline(ValidAngles(QuadInput)) + 20

\* the candidates _find_peaks hands to _filter_peaks_by_distance
PeakCandidates ==
    IF ValidAngles(QuadInput) = <<>> THEN <<>>
    ELSE Candidates(ValidAngles(QuadInput), SquatThreshold)

\* the accepted peaks once the first n candidates have been scanned
AcceptedPeaks(n) ==
    _filter_peaks_by_distance(SubSeq(PeakCandidates, 1, n), DefaultMinDistance)

\* list positions between candidate n and the last accepted peak before it
PositionsApart(n) ==
    PeakCandidates[n][1]
        - IndexOfFrame(ValidAngles(QuadInput), Frame(Last(AcceptedPeaks(n - 1))))

FramesApart(n) == Frame(PeakCandidates[n][2]) - Frame(Last(AcceptedPeaks(n - 1)))

\* C23 (as stated): scanning the candidates in order, every candidate closer
\* than the minimum distance (30 frames) to the previously accepted peak
\* replaces that peak, and a candidate at or beyond the minimum distance
\* starts a new accepted peak.
C23_CloserCandidateReplaces ==
    PhasesDetected =>
        \A n \in 2..Len(PeakCandidates) :
            AcceptedPeaks(n) =
                IF FramesApart(n) < DefaultMinDistance
                THEN SetLast(AcceptedPeaks(n - 1), PeakCandidates[n][2])
                ELSE Append(AcceptedPeaks(n - 1), PeakCandidates[n][2])

\* C23 (amended): a candidate fewer than 30 positions of the valid-frame
\* series after the previously accepted peak replaces that peak when its
\* angle is strictly greater and is dropped otherwise; a candidate 30 or
\* more positions after it starts a new accepted peak.
C23_HigherCloserCandidateReplaces ==
    PhasesDetected =>
        \A n \in 2..Len(PeakCandidates) :
            AcceptedPeaks(n) =
                IF PositionsApart(n) >= DefaultMinDistance
                THEN Append(AcceptedPeaks(n - 1), PeakCandidates[n][2])
                ELSE IF Angle(PeakCandidates[n][2]) > Angle(Last(AcceptedPeaks(n - 1)))
                THEN SetLast(AcceptedPeaks(n - 1), PeakCandidates[n][2])
                ELSE AcceptedPeaks(n - 1)

\* a close candidate that is not higher than the accepted peak was dropped
C23_Witness ==
    /\ PhasesDetected
    /\ \E n \in 2..Len(PeakCandidates) :
          /\ PositionsApart(n) < DefaultMinDistance
          /\ Angle(PeakCandidates[n][2]) <= Angle(Last(AcceptedPeaks(n - 1)))
          /\ AcceptedPeaks(n) = AcceptedPeaks(n - 1)

\* peaks_with_indices of detect_squat_phases: the accepted peaks with their
\* positions in valid_angles
PeaksWithIndices ==
    [k \in 1..Len(AcceptedPeaks(Len(PeakCandidates))) |->
        <<IndexOfFrame(ValidAngles(QuadInput), Frame(AcceptedPeaks(Len(PeakCandidates))[k])),
          AcceptedPeaks(Len(PeakCandidates))[k]>>]

\* the bounce filter merged accepted peak k into the rep of peak k - 1
MergedAt(k) ==
    Len(_filter_bounce_reps(SubSeq(PeaksWithIndices, 1, k), BounceThresholdFrames(video_fps)))
        = Len(_filter_bounce_reps(SubSeq(PeaksWithIndices, 1, k - 1),
                                  BounceThresholdFrames(video_fps)))

\* C24: two consecutive accepted peaks are merged into one rep exactly when
\* their distance in video frames is < fps x 1.0 and the later peak's angle
\* is >= 0.9 times the earlier peak's angle, also for fractional fps and
\* for series with missing frames between the two peaks.
C24_MergedExactlyWithinOneSecond ==
    PhasesDetected =>
        \A k \in 2..Len(PeaksWithIndices) :
            MergedAt(k) <=>
                /\ 100 * (Frame(PeaksWithIndices[k][2]) - Frame(PeaksWithIndices[k - 1][2]))
                       < video_fps
                /\ AtLeastNineTenths(Angle(PeaksWithIndices[k][2]),
                                     Angle(PeaksWithIndices[k - 1][2]))

ValidFrames == {Frame(ValidAngles(QuadInput)[k]) : k \in 1..Len(ValidAngles(QuadInput))}

\* the rep's frames are valid, stay at or above the threshold, and are
\* bounded by frames below it
RepWithinCrossings(rep, valid_angles, threshold) ==
    /\ \A f \in {rep.start_frame, rep.bottom_frame, rep.end_frame} :
          \E k \in 1..Len(valid_angles) : Frame(valid_angles[k]) = f
    /\ \A k \in 1..Len(valid_angles) :
          /\ Frame(valid_angles[k]) \in RepRange(rep) => Angle(valid_angles[k]) >= threshold
          /\ (k > 1 /\ Frame(valid_angles[k]) = rep.start_frame)
                => Angle(valid_angles[k - 1]) < threshold
          /\ (k < Len(valid_angles) /\ Frame(valid_angles[k]) = rep.end_frame)
                => Angle(valid_angles[k + 1]) < threshold
    /\ rep.start_frame < rep.end_frame

\* C25: for every rep detect_squat_phases returns, start_frame, bottom_frame
\* and end_frame are valid frames, every valid frame in [start_frame,
\* end_frame] has a quad angle >= baseline + 20, the valid frame just
\* before start_frame and the one just after end_frame, when there is one,
\* is below that threshold, and start_frame < end_frame.
C25_RepsWithinCrossings ==
    PhasesDetected =>
        \A valid_angles \in {ValidAngles(QuadInput)} :
            \A i \in 1..Len(squat_phases.reps) :
                \A threshold \in {_calculate_baseline(valid_angles) + 20} :
                    RepWithinCrossings(squat_phases.reps[i], valid_angles, threshold)

\* a rep that spans missing frames and has valid frames on both sides
C25_Witness ==
    /\ PhasesDetected
    /\ \E frames \in {ValidFrames} : \E i \in 1..Len(squat_phases.reps) :
          /\ \E f \in RepRange(squat_phases.reps[i]) : f \notin frames
          /\ \E f \in frames : f < squat_phases.reps[i].start_frame
          /\ \E f \in frames : f > squat_phases.reps[i].end_frame

(***************************************************************************)
(* Further claims about the analyzers (SpecAnalyzers)                      *)
(***************************************************************************)
\* the score the CV rule gives with a status (0 with an error)
ScaleScore(status) ==
    IF status = "good" THEN 100
    ELSE IF status = "warning" THEN 75
    ELSE IF status = "poor" THEN 50
    ELSE 0

\* the sum of the three sub-scores of the returned result
SubScoreSum ==
    ScaleScore(returned.depth_consistency.status)
        + ScaleScore(returned.torso_consistency.status)
        + ScaleScore(returned.asymmetry_consistency.status)

\* C26: with at least 2 reps the overall score of analyze_rep_consistency is
\* the unweighted mean of the three sub-scores (to the whole point), the
\* overall status is the one the good/warning/poor scale assigns to that
\* mean (good at 100, warning at 75, poor at 50), and the overall status is
\* never better than the mean supports.
C26_OverallIsMeanOfSubScores ==
    (ConsistencyReturned /\ Len(call.args[3]) >= 2) =>
        /\ 3 * returned.score <= SubScoreSum
        /\ SubScoreSum < 3 * (returned.score + 1)
        /\ SubScoreSum \in {300, 225, 150} => 3 * ScaleScore(returned.status) = SubScoreSum
        /\ returned.status = "good" => SubScoreSum > 225
        /\ returned.status = "warning" => SubScoreSum > 150

\* C28: analyze_torso_angle never returns score 90: the average of the
\* analysed angles never exceeds their maximum, so every torso result scores
\* 100, 95, 75 or 50, or is an error.
C28_TorsoNeverScoresNinety ==
    (pc = "analyzer_returned" /\ call.name = "analyze_torso_angle") =>
        \/ returned.status = "error"
        \/ /\ returned.avg_angle[1] <= returned.max_angle * returned.avg_angle[2]
           /\ returned.score \in {100, 95, 75, 50}

\* every analysed angle is 43 degrees: the average reaches the maximum on
\* the edge of the row that would score 90
C28_Witness ==
    /\ TorsoRated
    /\ returned.max_angle = 43
    /\ returned.avg_angle[1] = 43 * returned.avg_angle[2]
    /\ returned.avg_angle[2] > 1
    /\ returned.score = 100

(***************************************************************************)
(* Further claims about Exercise1.analyze_form (Spec)                      *)
(***************************************************************************)
TorsoInput == DictOrEmpty(DictOrEmpty(calc_results, "angles_per_frame"), "torso_angle")

\* the torso analysis of the frames of the reps in the phases argument
TorsoOverPhases == TorsoAnalysis(ValidOnly(_extract_active_angles(TorsoInput, squat_phases)))

\* C30: within one analyze_form call, for every fps, the frames over which
\* analyze_torso_angle computes its maximum and average are exactly the
\* frames of the reps in the phases argument, the active frames the depth,
\* ankle and asymmetry analyzers receive: the torso component is the
\* analysis of the torso angles of those frames.
C30_TorsoOverFramesOfPhases ==
    (pc = "done" /\ ~IsNone(form_result) /\ form_result["torso_angle"].status # "error") =>
        form_result["torso_angle"] = TorsoOverPhases

\* the result of another analysis that differs in ankle_angle and in
\* knee_valgus only: each scored, failed or (knee valgus) not run
OtherOutcomes == WithScore(ThreeScores) \cup {ErrorResult}

DifferingOnlyInAnkleAndValgus(result, ankle, valgus) ==
    [k \in ((DOMAIN result \ {"final_score", "knee_valgus"})
               \cup (IF valgus = Absent THEN {} ELSE {"knee_valgus"})) |->
        IF k = "ankle_angle" THEN AnalysisOf(ankle)
        ELSE IF k = "knee_valgus" THEN AnalysisOf(valgus)
        ELSE result[k]]

\* C29: the final score, grade and component scores of analyze_form do not
\* depend on the ankle_angle or knee_valgus results: an analysis that
\* differs only in those two components, or in whether knee valgus was run
\* at all, gets the same final_score, grade and component_scores.
C29_ScoreIgnoresAnkleAndValgus ==
    (pc = "done" /\ ~IsNone(form_result)) =>
        \A ankle \in OtherOutcomes, valgus \in OtherOutcomes \cup {Absent} :
            calculate_final_score(DifferingOnlyInAnkleAndValgus(form_result, ankle, valgus))
                = form_result["final_score"]

\* a front-view analysis in which ankle mobility and knee valgus are both
\* scored, and not with the final score
C29_Witness ==
    /\ pc = "done"
    /\ ~IsNone(form_result)
    /\ Scored(form_result, "ankle_angle")
    /\ Scored(form_result, "knee_valgus")
    /\ form_result["ankle_angle"].score # form_result["final_score"].final_score
    /\ form_result["knee_valgus"].score # form_result["final_score"].final_score
    /\ DOMAIN form_result["final_score"].component_scores
           \cap {"ankle_angle", "knee_valgus"} = {}

(***************************************************************************)
(* Rate limiting (shared/auth/rate_limit_utils.py) for one limit_name.     *)
(* Every request runs check_rate_limit in a thread of its own: it reads    *)
(* time.time() and then waits for the lock of the limit_name; the `with    *)
(* lock:` block runs as one step.  Time is in whole seconds.               *)
(***************************************************************************)
\* max_requests and window_seconds, the same in every call
MaxRequests == 2
WindowSeconds == 2

RECURSIVE RemoveOld(_, _)
\* `while store and store[0] <= now - window_seconds: store.popleft()`
RemoveOld(store, oldest) ==
    IF store # <<>> /\ Head(store) <= oldest THEN RemoveOld(Tail(store), oldest)
    ELSE store

\* int(store[0] + window_seconds - now) + 1
RetryAfter(store, time, window_seconds) == Head(store) + window_seconds - time + 1

\* the `with lock:` block of check_rate_limit: what the call raises, and the
\* deque it leaves
WithLock(store, time, max_requests, window_seconds) ==
    IF Len(RemoveOld(store, time - window_seconds)) >= max_requests
    THEN [raised |-> "HTTPException", status_code |-> 429,
          retry_after_seconds |->
              Max(RetryAfter(RemoveOld(store, time - window_seconds), time, window_seconds), 1),
          store |-> RemoveOld(store, time - window_seconds)]
    ELSE [raised |-> "none",
          store |-> Append(RemoveOld(store, time - window_seconds), time)]

RateLimitInit ==
    /\ pc = "rate_limit"
    /\ form_analysis = <<>>
    /\ final_score = None
    /\ ExerciseIdle
    /\ NoCall
    /\ NoUpload
    /\ NoTokens
    /\ NoRateLimit

\* `now = time.time()`: a request enters check_rate_limit and reads the clock
ReadTime ==
    /\ pc = "rate_limit"
    /\ \E c \in Callers, identifier \in Identifiers :
        /\ callers[c].at = "idle"
        /\ callers' = [callers EXCEPT ![c] =
                          [at |-> "lock", identifier |-> identifier, now |-> wall_clock]]
    /\ UNCHANGED <<_rate_limit_stores, wall_clock, admitted, pc, token_vars, score_vars,
                   exercise_vars, call_vars, upload_vars>>

\* the caller got the lock: it prunes the deque, then raises or records the
\* request and returns
EnterLock ==
    /\ pc = "rate_limit"
    /\ \E c \in Callers :
        /\ callers[c].at = "lock"
        /\ \E outcome \in {WithLock(_rate_limit_stores[callers[c].identifier],
                                    callers[c].now, MaxRequests, WindowSeconds)} :
            /\ _rate_limit_stores' =
                   [_rate_limit_stores EXCEPT ![callers[c].identifier] = outcome.store]
            /\ admitted' =
                   IF outcome.raised = "none"
                   THEN Append(admitted, [identifier |-> callers[c].identifier,
                                          returned_at |-> wall_clock])
                   ELSE admitted
            /\ call' = [name |-> "check_rate_limit",
                        args |-> <<callers[c].identifier, "login", MaxRequests, WindowSeconds>>,
                        now |-> callers[c].now,
                        store |-> _rate_limit_stores[callers[c].identifier]]
            /\ returned' = outcome
        /\ callers' = [callers EXCEPT ![c].at = "returned"]
    /\ UNCHANGED <<wall_clock, pc, token_vars, score_vars, exercise_vars, upload_vars>>

\* a second passes
Elapse ==
    /\ pc = "rate_limit"
    /\ wall_clock < MaxClock
    /\ wall_clock' = wall_clock + 1
    /\ UNCHANGED <<_rate_limit_stores, callers, admitted, pc, token_vars, score_vars,
                   exercise_vars, call_vars, upload_vars>>

RateLimitNext == ReadTime \/ EnterLock \/ Elapse

SpecRateLimit == RateLimitInit /\ [][RateLimitNext]_vars

(***************************************************************************)
(* Claims about the rate limiting (SpecRateLimit)                          *)
(***************************************************************************)
\* the calls for the identifier that returned normally from second `from`
\* on and before second `from` + window_seconds
AdmittedWithin(identifier, from, window_seconds) ==
    {k \in 1..Len(admitted) :
        /\ admitted[k].identifier = identifier
        /\ from <= admitted[k].returned_at
        /\ admitted[k].returned_at < from + window_seconds}

\* C22: for every identifier, under any interleaving of concurrent
\* check_rate_limit calls with the same max_requests and window_seconds, at
\* most max_requests calls return normally within any interval of
\* window_seconds, and every further call raises HTTP 429 with
\* retry_after_seconds >= 1 and is not recorded.
C22_AtMostMaxRequestsPerWindow ==
    /\ \A identifier \in Identifiers, from \in 0..MaxClock :
          Cardinality(AdmittedWithin(identifier, from, WindowSeconds)) <= MaxRequests
    /\ (DOMAIN call # {} /\ call.name = "check_rate_limit" /\ returned.raised # "none") =>
          /\ returned.status_code = 429
          /\ returned.retry_after_seconds >= 1
          /\ Len(returned.store) <= Len(call.store)

====
